---- MODULE Spec2Model ----
(***************************************************************************)
(* Model of the PostgreSQL connection lifecycle manager and the generic    *)
(* CRUD layer of bluetext (templates/api/src/backend/db).                  *)
(* Further sections model the pool create_pool() opens, the contact forms  *)
(* of project/api and the lifecycle manager of bluetext-demo-v0.           *)
(*                                                                         *)
(* The asyncio event loop is single threaded: a task runs without          *)
(* interruption from one await to the next.  Every action below is one     *)
(* such run of one task, and the pc of a task names the await at which it  *)
(* is suspended.                                                           *)
(***************************************************************************)
EXTENDS Integers, Sequences, FiniteSets, TLC

\* Number of pool objects that can be told apart at one time.
MaxPools == 3
\* Cap of the count of open pools that no handle refers to any more.
MaxLeaked == 2

\* Longest time followed between two iterations of the retry loop (seconds).
MaxElapsed == 2
\* "Log error every 10 seconds".
LogWindow == 10

PoolIds == 1..MaxPools
\* Python's None for a pool handle.
None == 0

VARIABLES
    USE_POSTGRES,            \* conf.USE_POSTGRES
    dbUp,                    \* the PostgreSQL server is reachable
    phase,                   \* lifespan: "boot", "serving", "shutdown"
    _pool,                   \* connection._pool (None or a pool)
    _connected,              \* connection._connected
    _reconnect_task,         \* connection._reconnect_task: "None" or "retry"
    _last_connection_error,  \* connection._last_connection_error
    poolState,               \* per pool object: "open" or "closed"
    leaked,                  \* open pools no handle refers to (capped)
    retryPc,                 \* task _connection_retry_loop
    retryCancel,             \* Task.cancel() was requested on the retry task
    monPc,                   \* task _monitor_connection
    monRef,                  \* pool the monitor's probe was acquired from
    closePc,                 \* coroutine close_db
    reqKind,                 \* request in flight: a member of ReqKinds
    reqPc,                   \* its position
    reqRef,                  \* pool its connection was acquired from
    reqResult,               \* what it returned or raised
    reqDown,                 \* the store was unreachable when it was issued
    selectOn,                \* pool on which this step ran a successful SELECT 1
    schemaOps,               \* what create_tables() did to the schema in this step
    sinceLog,                \* time.time() - _last_error_log_time, up to LogWindow
    sinceWarn,               \* seconds since the last warning was emitted, up to LogWindow
    warnings,                \* warnings emitted by the retry loop so far: 0, 1, 2 (or more)
    \* The store and the repository call in progress (db/utils.py)
    store,                   \* committed rows of the table, in physical order
    nextId,                  \* next value of the id sequence
    rFn,                     \* repository function called
    rPc,                     \* "idle", "tx" (inside execute_transaction), "done"
    rArgs,                   \* its arguments
    rSent,                   \* statements it sent to the store, in order
    rResult,                 \* what it returned or raised
    rBefore,                 \* the committed rows when it was called
    txPos,                   \* execute_transaction: next operation to execute
    txWork,                  \* rows as seen inside the open transaction
    made,                    \* the last item created and not written since
    \* Statement building (db/utils.py, utils/helpers.py)
    sqlFn,                   \* the function that builds
    sqlIn,                   \* its inputs: table, cols, vals, order_by, rows
    sqlStmt,                 \* the statement built: text and parameters
    sqlPc,                   \* "input" or "built"
    \* The pool behind create_pool() (db/connection.py, conf.py)
    pool_conf,               \* conf.get_postgres_pool_conf(): min_size, max_size
    poolOpened,              \* "none", "open", "rejected" or "closed"
    poolConns,               \* physical connections the pool holds
    poolBusy,                \* connections checked out
    \* The contact forms (project/api/src/backend/couchbase_client.py)
    USE_COUCHBASE,           \* conf.USE_COUCHBASE
    cbUp,                    \* Couchbase answers requests
    _document_storage,       \* couchbase_client._document_storage
    couchbase,               \* the documents of the bucket
    nextDoc,                 \* uuid4(): the next document id
    cbFn,                    \* the function called
    cbPc,                    \* "idle", "posting", "getting", "done"
    cbDoc,                   \* the document, or the id, the call is about
    cbResult                 \* what it returned or raised

lifeVars == <<USE_POSTGRES, dbUp, phase, _pool, _connected, _reconnect_task,
              _last_connection_error, poolState, leaked, retryPc, retryCancel,
              monPc, monRef, closePc, reqKind, reqPc, reqRef, reqResult,
              reqDown, selectOn>>

repoVars == <<store, nextId, rFn, rPc, rArgs, rSent, rResult, rBefore, txPos, txWork,
              made>>

sqlVars == <<sqlFn, sqlIn, sqlStmt, sqlPc>>

logVars == <<sinceLog, sinceWarn, warnings>>

sizeVars == <<pool_conf, poolOpened, poolConns, poolBusy>>

cbVars == <<USE_COUCHBASE, cbUp, _document_storage, couchbase, nextDoc, cbFn, cbPc,
            cbDoc, cbResult>>

dataVars == <<repoVars, sqlVars, sizeVars, cbVars>>

nonLifeVars == <<repoVars, sqlVars, logVars, sizeVars, cbVars>>
nonRepoVars == <<lifeVars, sqlVars, logVars, schemaOps, sizeVars, cbVars>>
nonSqlVars == <<lifeVars, repoVars, logVars, schemaOps, sizeVars, cbVars>>
nonSizeVars == <<lifeVars, repoVars, sqlVars, logVars, schemaOps, cbVars>>
nonCbVars == <<lifeVars, repoVars, sqlVars, logVars, schemaOps, sizeVars>>

vars == <<lifeVars, repoVars, sqlVars, logVars, schemaOps, sizeVars, cbVars>>

Min(a, b) == IF a < b THEN a ELSE b

\* PostgresPoolConf(min_size, max_size)
PoolConf(lo, hi) == [min_size |-> lo, max_size |-> hi]

\* A contact form document: its id and what the form said.
Doc(id, name) == [id |-> id, name |-> name]
NoDoc == Doc(0, "")
\* What a call on the contact forms gave: "id" with an id, "doc" with a
\* document, "None", "list" with documents, "RuntimeError".
CbResult(kind, id, docs) == [kind |-> kind, id |-> id, docs |-> docs]
NoCbResult == CbResult("none", 0, {})

----------------------------------------------------------------------------
(* Pool objects                                                            *)

\* The pools some handle still refers to.
Refs(p, m, r) == {p, m, r} \ {None}

\* An open pool that nothing refers to can never be closed: it is counted
\* in leaked and its slot is reused.
Collect(ps, p, m, r) ==
    LET lost == {i \in PoolIds : ps[i] = "open" /\ i \notin Refs(p, m, r)}
    IN  /\ poolState' = [i \in PoolIds |-> IF i \in lost THEN "closed" ELSE ps[i]]
        /\ leaked' = Min(leaked + Cardinality(lost), MaxLeaked)

\* The slot AsyncConnectionPool(...) gets: one not open and not referred to.
FreeIds == {i \in PoolIds : poolState[i] = "closed" /\ i \notin Refs(_pool, monRef, reqRef)}
Fresh == CHOOSE i \in FreeIds : \A j \in FreeIds : i <= j

NumOpen == Cardinality({i \in PoolIds : poolState[i] = "open"}) + leaked

\* await pool.open(): succeeds when the server is reachable; when it is not,
\* open() either raises or returns a pool whose connections are still being
\* attempted in the background (lazy is TRUE).
CreatePoolOk(lazy) == dbUp \/ lazy

\* SELECT 1 over a connection of pool p.
ProbeOk(p) == p # None /\ poolState[p] = "open" /\ dbUp

----------------------------------------------------------------------------
(* Lifespan                                                                *)

\* init_connection(): the retry loop becomes a task.
init_connection ==
    /\ _reconnect_task' = "retry"
    /\ retryPc' = "start"

\* lifespan() up to its yield.
Startup ==
    /\ UNCHANGED nonLifeVars
    /\ phase = "boot"
    /\ phase' = "serving"
    /\ IF USE_POSTGRES
       THEN init_connection
       ELSE UNCHANGED <<_reconnect_task, retryPc>>
    /\ selectOn' = None
    /\ schemaOps' = <<>>
    /\ UNCHANGED <<USE_POSTGRES, dbUp, _pool, _connected, _last_connection_error,
                   poolState, leaked, retryCancel, monPc, monRef, closePc,
                   reqKind, reqPc, reqRef, reqResult, reqDown>>

\* The server becomes unreachable, or reachable again.
DbDown ==
    /\ UNCHANGED nonLifeVars
    /\ dbUp
    /\ dbUp' = FALSE
    /\ selectOn' = None
    /\ schemaOps' = <<>>
    /\ UNCHANGED <<USE_POSTGRES, phase, _pool, _connected, _reconnect_task,
                   _last_connection_error, poolState, leaked, retryPc, retryCancel,
                   monPc, monRef, closePc, reqKind, reqPc, reqRef, reqResult, reqDown>>

DbUp ==
    /\ UNCHANGED nonLifeVars
    /\ ~dbUp
    /\ dbUp' = TRUE
    /\ selectOn' = None
    /\ schemaOps' = <<>>
    /\ UNCHANGED <<USE_POSTGRES, phase, _pool, _connected, _reconnect_task,
                   _last_connection_error, poolState, leaked, retryPc, retryCancel,
                   monPc, monRef, closePc, reqKind, reqPc, reqRef, reqResult, reqDown>>

----------------------------------------------------------------------------
(* _connection_retry_loop                                                  *)

\* Mutant of Warn: the time of the warning is not kept.
WarnForgetsTime(due) ==
    /\ sinceLog' = sinceLog
    /\ sinceWarn' = IF due THEN 0 ELSE sinceWarn
    /\ warnings' = IF due THEN Min(warnings + 1, 2) ELSE warnings

\* if current_time - _last_error_log_time >= 10: logger.warning(...);
\* _last_error_log_time = current_time
Warn(due) ==
    /\ sinceLog' = IF due THEN 0 ELSE sinceLog
    /\ sinceWarn' = IF due THEN 0 ELSE sinceWarn
    /\ warnings' = IF due THEN Min(warnings + 1, 2) ELSE warnings

\* The retry loop has ended: nothing reads the clock again, and the two
\* times are followed no further.
LoopEnded ==
    /\ sinceLog' = LogWindow
    /\ sinceWarn' = LogWindow
    /\ warnings' = 0

\* d seconds pass.
Elapse(d) ==
    /\ sinceLog' = Min(sinceLog + d, LogWindow)
    /\ sinceWarn' = Min(sinceWarn + d, LogWindow)
    /\ UNCHANGED warnings

\* except clauses of create_tables: "except ImportError", "except Exception".
HandlersImportOnly == {"ImportError"}

Handlers == {"ImportError", "Exception"}

SchemaOp(op, ok) == [op |-> op, ok |-> ok]

\* The inner try of create_tables: create_all; if it raises, drop_all and
\* create_all again; if either of those raises, the exception is raised again.
CreateOrRecreate(c1, d, c2) ==
    IF c1 THEN [ops |-> <<SchemaOp("create_all", TRUE)>>, exc |-> "none"]
    ELSE IF ~d
    THEN [ops |-> <<SchemaOp("create_all", FALSE), SchemaOp("drop_all", FALSE)>>,
          exc |-> "Exception"]
    ELSE [ops |-> <<SchemaOp("create_all", FALSE), SchemaOp("drop_all", TRUE),
                    SchemaOp("create_all", c2)>>,
          exc |-> IF c2 THEN "none" ELSE "Exception"]

\* create_tables(): the models are imported, the engine is made, then the
\* inner try; what escapes is what no except clause catches.
create_tables(importOk, engineOk, c1, d, c2) ==
    LET body == IF ~importOk THEN [ops |-> <<>>, exc |-> "ImportError"]
                ELSE IF ~engineOk THEN [ops |-> <<>>, exc |-> "Exception"]
                ELSE CreateOrRecreate(c1, d, c2)
    IN  [ops |-> body.ops, raised |-> body.exc # "none" /\ body.exc \notin Handlers]

\* Mutant of RetryFail: the loop gives up after a failure instead of sleeping.
RetryFailGivesUp(err) ==
    /\ _last_connection_error' = err
    /\ LoopEnded
    /\ retryPc' = "done"

\* The except branch: record the error, warn if the last warning is
\* LogWindow seconds old, then sleep(1).
RetryFail(err) ==
    /\ _last_connection_error' = err
    /\ Warn(sinceLog >= LogWindow)
    /\ retryPc' = "sleeping"

\* Top of the loop, on the first run and after each sleep(1).
RetryLoop ==
    /\ UNCHANGED dataVars
    /\ retryPc \in {"start", "sleeping"}
    /\ ~retryCancel
    /\ IF _connected THEN LoopEnded
       ELSE IF retryPc = "sleeping" THEN \E d \in 1..MaxElapsed : Elapse(d)
       ELSE UNCHANGED logVars
    /\ retryPc' = IF _connected THEN "done" ELSE "creating"
    /\ selectOn' = None
    /\ schemaOps' = <<>>
    /\ UNCHANGED <<USE_POSTGRES, dbUp, phase, _pool, _connected, _reconnect_task,
                   _last_connection_error, poolState, leaked, retryCancel,
                   monPc, monRef, closePc, reqKind, reqPc, reqRef, reqResult, reqDown>>

\* create_pool() returns or raises; on return the probe's connection is asked for.
RetryCreated ==
    /\ UNCHANGED dataVars
    /\ retryPc = "creating"
    /\ ~retryCancel
    /\ \E lazy \in BOOLEAN :
         IF CreatePoolOk(lazy)
         THEN /\ _pool' = Fresh
              /\ Collect([poolState EXCEPT ![Fresh] = "open"], Fresh, monRef, reqRef)
              /\ retryPc' = "probing"
              /\ UNCHANGED <<_last_connection_error, logVars>>
         ELSE /\ RetryFail("open failed")
              /\ UNCHANGED <<_pool, poolState, leaked>>
    /\ selectOn' = None
    /\ schemaOps' = <<>>
    /\ UNCHANGED <<USE_POSTGRES, dbUp, phase, _connected, _reconnect_task, retryCancel,
                   monPc, monRef, closePc, reqKind, reqPc, reqRef, reqResult, reqDown>>

\* SELECT 1 returns or raises; on return create_tables() runs, the flag is
\* set and the monitor becomes a task.
RetryProbed ==
    /\ UNCHANGED dataVars
    /\ retryPc = "probing"
    /\ ~retryCancel
    /\ IF ProbeOk(_pool)
       THEN \E importOk, engineOk, c1, d, c2 \in BOOLEAN :
              LET t == create_tables(importOk, engineOk, c1, d, c2)
              IN  /\ selectOn' = _pool
                  /\ schemaOps' = t.ops
                  /\ IF t.raised
                     THEN /\ RetryFail("create_tables failed")
                          /\ UNCHANGED <<_connected, monPc>>
                     ELSE /\ _connected' = TRUE
                          /\ monPc' = "start"
                          /\ retryPc' = "done"
                          /\ LoopEnded
                          /\ UNCHANGED _last_connection_error
       ELSE /\ selectOn' = None
            /\ schemaOps' = <<>>
            /\ RetryFail("probe failed")
            /\ UNCHANGED <<_connected, monPc>>
    /\ UNCHANGED <<USE_POSTGRES, dbUp, phase, _pool, _reconnect_task, poolState, leaked,
                   retryCancel, monRef, closePc, reqKind, reqPc, reqRef, reqResult, reqDown>>

\* CancelledError is raised at the await the task is suspended at; it is not
\* an Exception, so the task ends.
RetryCancelled ==
    /\ UNCHANGED dataVars
    /\ LoopEnded
    /\ retryCancel
    /\ retryPc \in {"start", "creating", "probing", "sleeping"}
    /\ retryPc' = "cancelled"
    /\ selectOn' = None
    /\ schemaOps' = <<>>
    /\ UNCHANGED <<USE_POSTGRES, dbUp, phase, _pool, _connected, _reconnect_task,
                   _last_connection_error, poolState, leaked, retryCancel,
                   monPc, monRef, closePc, reqKind, reqPc, reqRef, reqResult, reqDown>>

----------------------------------------------------------------------------
(* _monitor_connection                                                     *)

\* while _pool and _connected: the next await is sleep(30), or the task ends.
MonitorLoop(p, c) == IF p # None /\ c THEN "sleep30" ELSE "done"

MonStart ==
    /\ UNCHANGED nonLifeVars
    /\ monPc = "start"
    /\ monPc' = MonitorLoop(_pool, _connected)
    /\ selectOn' = None
    /\ schemaOps' = <<>>
    /\ UNCHANGED <<USE_POSTGRES, dbUp, phase, _pool, _connected, _reconnect_task,
                   _last_connection_error, poolState, leaked, retryPc, retryCancel,
                   monRef, closePc, reqKind, reqPc, reqRef, reqResult, reqDown>>

\* sleep(30) is over: if _pool, ask it for a connection.
MonWake ==
    /\ UNCHANGED nonLifeVars
    /\ monPc = "sleep30"
    /\ IF _pool # None
       THEN /\ monRef' = _pool
            /\ monPc' = "probing"
       ELSE /\ monRef' = None
            /\ monPc' = MonitorLoop(_pool, _connected)
    /\ selectOn' = None
    /\ schemaOps' = <<>>
    /\ UNCHANGED <<USE_POSTGRES, dbUp, phase, _pool, _connected, _reconnect_task,
                   _last_connection_error, poolState, leaked, retryPc, retryCancel,
                   closePc, reqKind, reqPc, reqRef, reqResult, reqDown>>

\* Mutant of MonProbed: a failed probe leaves the flag as it is.
MonProbedKeepsFlag ==
    /\ UNCHANGED nonLifeVars
    /\ monPc = "probing"
    /\ monRef' = None
    /\ schemaOps' = <<>>
    /\ IF ProbeOk(monRef)
       THEN /\ selectOn' = monRef
            /\ monPc' = MonitorLoop(_pool, _connected)
            /\ Collect(poolState, _pool, None, reqRef)
            /\ UNCHANGED _connected
       ELSE /\ selectOn' = None
            /\ UNCHANGED _connected
            /\ IF _pool # None
               THEN /\ Collect([poolState EXCEPT ![_pool] = "closed"], _pool, None, reqRef)
                    /\ monPc' = "closing"
               ELSE /\ Collect(poolState, _pool, None, reqRef)
                    /\ monPc' = "creating"
    /\ UNCHANGED <<USE_POSTGRES, dbUp, phase, _pool, _reconnect_task,
                   _last_connection_error, retryPc, retryCancel,
                   closePc, reqKind, reqPc, reqRef, reqResult, reqDown>>

\* The probe returns, or raises: then the flag is cleared and the pool, if
\* there is one, is closed.
MonProbed ==
    /\ UNCHANGED nonLifeVars
    /\ monPc = "probing"
    /\ monRef' = None
    /\ schemaOps' = <<>>
    /\ IF ProbeOk(monRef)
       THEN /\ selectOn' = monRef
            /\ monPc' = MonitorLoop(_pool, _connected)
            /\ Collect(poolState, _pool, None, reqRef)
            /\ UNCHANGED _connected
       ELSE /\ selectOn' = None
            /\ _connected' = FALSE
            /\ IF _pool # None
               THEN /\ Collect([poolState EXCEPT ![_pool] = "closed"], _pool, None, reqRef)
                    /\ monPc' = "closing"
               ELSE /\ Collect(poolState, _pool, None, reqRef)
                    /\ monPc' = "creating"
    /\ UNCHANGED <<USE_POSTGRES, dbUp, phase, _pool, _reconnect_task,
                   _last_connection_error, retryPc, retryCancel,
                   closePc, reqKind, reqPc, reqRef, reqResult, reqDown>>

\* _pool.close() returned: create_pool() is called.
MonClosed ==
    /\ UNCHANGED nonLifeVars
    /\ monPc = "closing"
    /\ monPc' = "creating"
    /\ selectOn' = None
    /\ schemaOps' = <<>>
    /\ UNCHANGED <<USE_POSTGRES, dbUp, phase, _pool, _connected, _reconnect_task,
                   _last_connection_error, poolState, leaked, retryPc, retryCancel,
                   monRef, closePc, reqKind, reqPc, reqRef, reqResult, reqDown>>

\* create_pool() returns: the flag is set.  Or it raises: sleep(10).
MonCreated ==
    /\ UNCHANGED nonLifeVars
    /\ monPc = "creating"
    /\ \E lazy \in BOOLEAN :
         IF CreatePoolOk(lazy)
         THEN /\ _pool' = Fresh
              /\ Collect([poolState EXCEPT ![Fresh] = "open"], Fresh, monRef, reqRef)
              /\ _connected' = TRUE
              /\ monPc' = MonitorLoop(Fresh, TRUE)
         ELSE /\ monPc' = "sleep10"
              /\ UNCHANGED <<_pool, poolState, leaked, _connected>>
    /\ selectOn' = None
    /\ schemaOps' = <<>>
    /\ UNCHANGED <<USE_POSTGRES, dbUp, phase, _reconnect_task, _last_connection_error,
                   retryPc, retryCancel, monRef, closePc, reqKind, reqPc, reqRef,
                   reqResult, reqDown>>

\* sleep(10) is over: back to the loop condition.
MonSlept ==
    /\ UNCHANGED nonLifeVars
    /\ monPc = "sleep10"
    /\ monPc' = MonitorLoop(_pool, _connected)
    /\ selectOn' = None
    /\ schemaOps' = <<>>
    /\ UNCHANGED <<USE_POSTGRES, dbUp, phase, _pool, _connected, _reconnect_task,
                   _last_connection_error, poolState, leaked, retryPc, retryCancel,
                   monRef, closePc, reqKind, reqPc, reqRef, reqResult, reqDown>>

----------------------------------------------------------------------------
(* close_db                                                                *)

\* After the retry task was joined: forget it and close the pool, if any.
CloseTail ==
    /\ _reconnect_task' = "None"
    /\ IF _pool # None
       THEN /\ Collect([poolState EXCEPT ![_pool] = "closed"], _pool, monRef, reqRef)
            /\ closePc' = "closing"
       ELSE /\ closePc' = "done"
            /\ UNCHANGED <<poolState, leaked>>

\* close_db() up to its first suspension.  Awaiting a task that is already
\* done does not suspend.
close_db ==
    IF _reconnect_task # "None"
    THEN /\ retryCancel' = (retryPc \notin {"done", "cancelled"})
         /\ IF retryPc \in {"done", "cancelled"}
            THEN CloseTail
            ELSE /\ closePc' = "joining"
                 /\ UNCHANGED <<_reconnect_task, poolState, leaked>>
    ELSE /\ UNCHANGED <<retryCancel, _reconnect_task>>
         /\ IF _pool # None
            THEN /\ Collect([poolState EXCEPT ![_pool] = "closed"], _pool, monRef, reqRef)
                 /\ closePc' = "closing"
            ELSE /\ closePc' = "done"
                 /\ UNCHANGED <<poolState, leaked>>

\* lifespan() after its yield.
Shutdown ==
    /\ UNCHANGED nonLifeVars
    /\ phase = "serving"
    /\ phase' = "shutdown"
    /\ IF USE_POSTGRES
       THEN close_db
       ELSE UNCHANGED <<retryCancel, _reconnect_task, closePc, poolState, leaked>>
    /\ selectOn' = None
    /\ schemaOps' = <<>>
    /\ UNCHANGED <<USE_POSTGRES, dbUp, _pool, _connected, _last_connection_error,
                   retryPc, monPc, monRef, reqKind, reqPc, reqRef, reqResult, reqDown>>

\* await _reconnect_task returns once the retry task has ended.
CloseJoined ==
    /\ UNCHANGED nonLifeVars
    /\ closePc = "joining"
    /\ retryPc \in {"done", "cancelled"}
    /\ CloseTail
    /\ selectOn' = None
    /\ schemaOps' = <<>>
    /\ UNCHANGED <<USE_POSTGRES, dbUp, phase, _pool, _connected, _last_connection_error,
                   retryPc, retryCancel, monPc, monRef, reqKind, reqPc, reqRef,
                   reqResult, reqDown>>

\* close_db() dropping the handle and leaving the flag as it is.
CloseClosedKeepsFlag ==
    /\ UNCHANGED nonLifeVars
    /\ closePc = "closing"
    /\ closePc' = "done"
    /\ _pool' = None
    /\ Collect(poolState, None, monRef, reqRef)
    /\ selectOn' = None
    /\ schemaOps' = <<>>
    /\ UNCHANGED <<USE_POSTGRES, dbUp, phase, _reconnect_task, _last_connection_error,
                   retryPc, retryCancel, monPc, monRef, reqKind, reqPc, reqRef,
                   reqResult, reqDown, _connected>>

\* await _pool.close() returned: _pool = None, _connected = False.
CloseClosed ==
    /\ UNCHANGED nonLifeVars
    /\ closePc = "closing"
    /\ closePc' = "done"
    /\ _pool' = None
    /\ _connected' = FALSE
    /\ Collect(poolState, None, monRef, reqRef)
    /\ selectOn' = None
    /\ schemaOps' = <<>>
    /\ UNCHANGED <<USE_POSTGRES, dbUp, phase, _reconnect_task, _last_connection_error,
                   retryPc, retryCancel, monPc, monRef, reqKind, reqPc, reqRef,
                   reqResult, reqDown>>

----------------------------------------------------------------------------
(* Requests: a repository call (get_item, bulk_create) or GET /health,      *)
(* as routes.py answers it ("health", through is_connected()) and as        *)
(* routes/base.py answers it ("health_snapshot", through health_check())    *)

ReqKinds == {"get_item", "bulk_create", "health", "health_snapshot"}

HealthKinds == {"health", "health_snapshot"}

\* The requests that are calls of the repository.
RepoKinds == ReqKinds \ HealthKinds

\* Mutant of health_check: the snapshot says "healthy" whatever the flag.
health_checkAlwaysHealthy == "healthy"

\* health_check(): the status of the snapshot; its connected field is True
\* exactly with "healthy".
health_check == IF ~_connected THEN "connecting" ELSE "healthy"

\* The connected field of a database entry: routes.py sets it with the
\* status ("healthy" if db_connected else "unhealthy"), and so does
\* health_check().
EntryConnected(status) == status = "healthy"

\* get_connection() and is_connected() after _ensure_connected() returned.
AfterReady(kind) ==
    IF _pool = None
    THEN /\ reqPc' = "done"
         /\ reqRef' = None
         /\ reqResult' = IF kind = "health" THEN "unhealthy" ELSE "RuntimeError"
    ELSE /\ reqPc' = "acquiring"
         /\ reqRef' = _pool
         /\ reqResult' = "none"

\* _ensure_connected(): suspended in sleep(0.1) for as long as the flag is off.
_ensure_connected(kind) ==
    IF _connected
    THEN AfterReady(kind)
    ELSE /\ reqPc' = "waiting"
         /\ reqRef' = None
         /\ reqResult' = "none"

\* A request arrives.  The /health route asks is_connected() when the
\* feature is on and answers "disabled" when it is off; get_item() enters
\* get_connection(); so does bulk_create(), unless its list of items is
\* empty: then it returns [] at once.
ReqStart ==
    /\ UNCHANGED nonLifeVars
    /\ phase = "serving"
    /\ reqPc \in {"idle", "done"}
    /\ \E kind \in ReqKinds, empty \in BOOLEAN :
         /\ reqKind' = kind
         /\ IF kind \in HealthKinds /\ ~USE_POSTGRES
            THEN /\ reqPc' = "done"
                 /\ reqRef' = None
                 /\ reqResult' = "disabled"
            ELSE IF kind = "health_snapshot"
            THEN /\ reqPc' = "done"
                 /\ reqRef' = None
                 /\ reqResult' = health_check
            ELSE IF kind = "bulk_create" /\ empty
            THEN /\ reqPc' = "done"
                 /\ reqRef' = None
                 /\ reqResult' = "[]"
            ELSE _ensure_connected(kind)
    /\ reqDown' = ~dbUp
    /\ selectOn' = None
    /\ schemaOps' = <<>>
    /\ UNCHANGED <<USE_POSTGRES, dbUp, phase, _pool, _connected, _reconnect_task,
                   _last_connection_error, poolState, leaked, retryPc, retryCancel,
                   monPc, monRef, closePc>>

\* A poll of _ensure_connected() that finds the flag set.
ReqReady ==
    /\ UNCHANGED nonLifeVars
    /\ reqPc = "waiting"
    /\ _connected
    /\ AfterReady(reqKind)
    /\ selectOn' = None
    /\ schemaOps' = <<>>
    /\ UNCHANGED <<USE_POSTGRES, dbUp, phase, _pool, _connected, _reconnect_task,
                   _last_connection_error, poolState, leaked, retryPc, retryCancel,
                   monPc, monRef, closePc, reqKind, reqDown>>

\* The statement over the acquired connection returns or raises.
ReqFinish ==
    /\ UNCHANGED nonLifeVars
    /\ reqPc = "acquiring"
    /\ schemaOps' = <<>>
    /\ reqPc' = "done"
    /\ reqRef' = None
    /\ IF ProbeOk(reqRef)
       THEN /\ reqResult' = IF reqKind = "health" THEN "healthy" ELSE "ok"
            /\ selectOn' = IF reqKind = "health" THEN reqRef ELSE None
       ELSE /\ reqResult' = IF reqKind = "health" THEN "unhealthy" ELSE "connectivity error"
            /\ selectOn' = None
    /\ schemaOps' = <<>>
    /\ Collect(poolState, _pool, monRef, None)
    /\ UNCHANGED <<USE_POSTGRES, dbUp, phase, _pool, _connected, _reconnect_task,
                   _last_connection_error, retryPc, retryCancel,
                   monPc, monRef, closePc, reqKind, reqDown>>

----------------------------------------------------------------------------
(* The store: table "user" (db/models.py) behind one connection            *)

\* Highest value the id sequence is followed to.
MaxId == 3
\* Longest operation list given to execute_transaction.
MaxOps == 2
\* Most rows given to bulk_create.
MaxBulkRows == 2

Emails == {"a@x", "b@x"}
Names == {"Alice", "Bob"}
Ids == 1..MaxId

\* A statement as the server sees it.
Stmt(verb, id, cols, vals) == [verb |-> verb, id |-> id, cols |-> cols, vals |-> vals]

\* The outcome of one statement: whether it succeeded, the rows of the table
\* after it, the rows it returned, the error it raised.
Outcome(ok, tbl, out, err) == [ok |-> ok, tbl |-> tbl, out |-> out, err |-> err]

RECURSIVE Lookup(_, _, _, _)
\* The value given for column c in the parallel lists cols/vals, else dflt.
Lookup(cols, vals, c, dflt) ==
    IF cols = <<>> THEN dflt
    ELSE IF cols[1] = c THEN vals[1]
    ELSE Lookup(Tail(cols), Tail(vals), c, dflt)

RECURSIVE Without(_, _)
\* DELETE: the rows whose id is not id, order kept.
Without(tbl, id) ==
    IF tbl = <<>> THEN <<>>
    ELSE IF tbl[1].id = id THEN Without(Tail(tbl), id)
    ELSE <<tbl[1]>> \o Without(Tail(tbl), id)

HasId(tbl, id) == \E i \in DOMAIN tbl : tbl[i].id = id

\* email is declared unique=True; email and name are NOT NULL; bio is
\* Optional.
EmailTaken(tbl, e, exceptId) ==
    \E i \in DOMAIN tbl : tbl[i].email = e /\ tbl[i].id # exceptId

\* The server executes statement st on the rows tbl; newId is the value the
\* id sequence hands out.
Exec(tbl, st, newId) ==
    CASE st.verb = "INSERT" ->
           LET e == Lookup(st.cols, st.vals, "email", "NULL")
               n == Lookup(st.cols, st.vals, "name", "NULL")
               row == [id |-> newId, email |-> e, name |-> n,
                       bio |-> Lookup(st.cols, st.vals, "bio", "NULL")]
           IN  IF st.cols = <<>> THEN Outcome(FALSE, tbl, <<>>, "syntax error")
               ELSE IF e = "NULL" \/ n = "NULL"
               THEN Outcome(FALSE, tbl, <<>>, "not-null violation")
               ELSE IF EmailTaken(tbl, e, 0)
               THEN Outcome(FALSE, tbl, <<>>, "unique violation")
               ELSE Outcome(TRUE, Append(tbl, row), <<row>>, "")
      [] st.verb = "UPDATE" ->
           LET upd(r) == [id |-> r.id,
                          email |-> Lookup(st.cols, st.vals, "email", r.email),
                          name |-> Lookup(st.cols, st.vals, "name", r.name),
                          bio |-> Lookup(st.cols, st.vals, "bio", r.bio)]
               new == [i \in DOMAIN tbl |-> IF tbl[i].id = st.id THEN upd(tbl[i]) ELSE tbl[i]]
               hit == {i \in DOMAIN tbl : tbl[i].id = st.id}
           IN  IF st.cols = <<>> THEN Outcome(FALSE, tbl, <<>>, "syntax error")
               ELSE IF hit = {} THEN Outcome(TRUE, tbl, <<>>, "")
               ELSE IF EmailTaken(tbl, Lookup(st.cols, st.vals, "email", "NULL"), st.id)
               THEN Outcome(FALSE, tbl, <<>>, "unique violation")
               ELSE Outcome(TRUE, new, <<new[CHOOSE i \in hit : TRUE]>>, "")
      [] st.verb = "DELETE" ->
           IF HasId(tbl, st.id)
           THEN Outcome(TRUE, Without(tbl, st.id), <<[id |-> st.id, email |-> "", name |-> ""]>>, "")
           ELSE Outcome(TRUE, tbl, <<>>, "")
      [] st.verb = "SELECT" ->
           Outcome(TRUE, tbl, SelectSeq(tbl, LAMBDA r : r.id = st.id), "")
      [] OTHER -> Outcome(FALSE, tbl, <<>>, "syntax error")

\* Highest limit and offset given to get_items (the lowest is -1).
MaxLimit == 2
MaxOffset == 2

\* The columns of the table.
Columns == {"id", "email", "name", "bio"}

\* SELECT * FROM t [WHERE c = %s AND ...] [ORDER BY o] LIMIT %s OFFSET %s
PageStmt(cols, vals, order, limit, offset) ==
    [verb |-> "SELECT", id |-> 0, cols |-> cols, vals |-> vals,
     order |-> order, limit |-> limit, offset |-> offset]

\* The rows that have the value given for each of the columns given.
Matching(tbl, cols, vals) ==
    SelectSeq(tbl, LAMBDA r : \A i \in DOMAIN cols : r[cols[i]] = vals[i])

\* The orders in which the server may hand out rows: SQL gives a SELECT
\* without ORDER BY no order at all; with ORDER BY id the ids ascend.
ScanOrders(rows, order) ==
    LET n == Len(rows)
        perms == {f \in [1..n -> 1..n] : \A i, j \in 1..n : i # j => f[i] # f[j]}
        sorted(q) == \A i, j \in 1..n : i < j => q[i].id <= q[j].id
        all == {[i \in 1..n |-> rows[f[i]]] : f \in perms}
    IN  IF order = "None" THEN all ELSE {q \in all : sorted(q)}

\* LIMIT limit OFFSET offset of the rows q.
Page(q, limit, offset) == SubSeq(q, offset + 1, Min(offset + limit, Len(q)))

\* The outcomes the server may give to a page statement.
ExecPage(tbl, st) ==
    IF \E i \in DOMAIN st.cols : st.cols[i] \notin Columns
    THEN {Outcome(FALSE, tbl, <<>>, "undefined column")}
    ELSE IF st.order \notin Columns \cup {"None"}
    THEN {Outcome(FALSE, tbl, <<>>, "undefined column")}
    ELSE IF st.limit < 0
    THEN {Outcome(FALSE, tbl, <<>>, "LIMIT must not be negative")}
    ELSE IF st.offset < 0
    THEN {Outcome(FALSE, tbl, <<>>, "OFFSET must not be negative")}
    ELSE {Outcome(TRUE, tbl, Page(q, st.limit, st.offset), "") :
            q \in ScanOrders(Matching(tbl, st.cols, st.vals), st.order)}

RECURSIVE ExecInsertMany(_, _, _, _)
\* INSERT INTO t (cols) VALUES (...), (...) RETURNING *: one row after the
\* other, all of them or, when one is refused, none.
ExecInsertMany(tbl, cols, rows, newId) ==
    IF rows = <<>> THEN Outcome(TRUE, tbl, <<>>, "")
    ELSE LET o == Exec(tbl, Stmt("INSERT", 0, cols, rows[1]), newId)
             rest == ExecInsertMany(o.tbl, cols, Tail(rows), newId + 1)
         IN  IF ~o.ok THEN o
             ELSE IF ~rest.ok THEN Outcome(FALSE, tbl, <<>>, rest.err)
             ELSE Outcome(TRUE, rest.tbl, o.out \o rest.out, "")

\* An INSERT takes a value from the id sequence whether or not it succeeds
\* and whether or not its transaction commits.
NextIdAfter(st) == IF st.verb = "INSERT" /\ st.cols # <<>> THEN nextId + 1 ELSE nextId

\* The sequence is followed up to MaxId.
SeqAvailable(st) == st.verb = "INSERT" => nextId <= MaxId

\* What a repository function hands back.
Result(kind, rows, err) == [kind |-> kind, rows |-> rows, err |-> err]
NoResult == Result("none", <<>>, "")

\* Arguments of a call.
Args(id, pairs, ops) == [id |-> id, pairs |-> pairs, ops |-> ops]

\* The item create_item returned: its id and the fields its caller set.
Made(id, pairs) == [id |-> id, pairs |-> pairs]
NoMade == Made(0, <<>>)

\* The rows with that id.
RowOf(tbl, id) == {tbl[i] : i \in {j \in DOMAIN tbl : tbl[j].id = id}}

\* The created item stays on record until its row is written.
StillMade(before, after) ==
    IF RowOf(before, made.id) = RowOf(after, made.id) THEN made ELSE NoMade

\* Arguments of get_items.
PageArgs(where, order, limit, offset) ==
    [id |-> 0, pairs |-> where, ops |-> <<>>,
     order |-> order, limit |-> limit, offset |-> offset]

\* Arguments of bulk_create.
BulkArgs(items) == [id |-> 0, pairs |-> <<>>, ops |-> <<>>, items |-> items]

Cols(pairs) == [i \in DOMAIN pairs |-> pairs[i][1]]
Vals(pairs) == [i \in DOMAIN pairs |-> pairs[i][2]]

\* get_connection() returns a connection: the manager is Connected and the
\* pool hands out a live connection.
HaveConnection == _connected /\ ProbeOk(_pool)

----------------------------------------------------------------------------
(* The lifecycle manager with its callers                                  *)

Next ==
    \/ Startup \/ Shutdown \/ DbDown \/ DbUp \/ ReqStart
    \/ RetryLoop \/ RetryCreated \/ RetryProbed \/ RetryCancelled
    \/ MonStart \/ MonWake \/ MonProbed \/ MonClosed \/ MonCreated \/ MonSlept
    \/ CloseJoined \/ CloseClosed
    \/ ReqReady \/ ReqFinish

\* A built statement: its text and the parameters sent beside it.
Statement(text, params) == [text |-> text, params |-> params]
SqlInput(table, cols, vals, order, rows) ==
    [table |-> table, cols |-> cols, vals |-> vals, order |-> order, rows |-> rows]


\* The module's globals at import, before lifespan() runs, and an empty table.
Init ==
    /\ USE_POSTGRES \in BOOLEAN
    /\ dbUp \in BOOLEAN
    /\ phase = "boot"
    /\ _pool = None
    /\ _connected = FALSE
    /\ _reconnect_task = "None"
    /\ _last_connection_error = "None"
    /\ poolState = [i \in PoolIds |-> "closed"]
    /\ leaked = 0
    /\ retryPc = "none"
    /\ retryCancel = FALSE
    /\ monPc = "none"
    /\ monRef = None
    /\ closePc = "idle"
    /\ reqKind = "none"
    /\ reqPc = "idle"
    /\ reqRef = None
    /\ reqResult = "none"
    /\ reqDown = FALSE
    /\ selectOn = None
    /\ schemaOps = <<>>
    /\ sinceLog = LogWindow
    /\ sinceWarn = LogWindow
    /\ warnings = 0
    /\ store = <<>>
    /\ nextId = 1
    /\ rFn = "none"
    /\ rPc = "idle"
    /\ rArgs = Args(0, <<>>, <<>>)
    /\ rSent = <<>>
    /\ rResult = NoResult
    /\ rBefore = <<>>
    /\ txPos = 0
    /\ txWork = <<>>
    /\ made = NoMade
    /\ sqlFn = "none"
    /\ sqlIn = SqlInput(<<>>, <<>>, <<>>, <<>>, <<>>)
    /\ sqlStmt = Statement(<<>>, <<>>)
    /\ sqlPc = "built"
    /\ pool_conf = PoolConf(1, 1)
    /\ poolOpened = "none"
    /\ poolConns = 0
    /\ poolBusy = 0
    /\ USE_COUCHBASE = FALSE
    /\ cbUp = TRUE
    /\ _document_storage = {}
    /\ couchbase = {}
    /\ nextDoc = 1
    /\ cbFn = "none"
    /\ cbPc = "idle"
    /\ cbDoc = NoDoc
    /\ cbResult = NoCbResult

Spec == Init /\ [][Next]_vars

\* The event loop runs every task that is ready to run; requests, outages
\* and shutdown come from outside and are under no obligation to happen.
FairSpec ==
    /\ Init
    /\ [][Next]_vars
    /\ WF_vars(Startup)
    /\ WF_vars(RetryLoop) /\ WF_vars(RetryCreated) /\ WF_vars(RetryProbed)
    /\ WF_vars(RetryCancelled)
    /\ WF_vars(MonStart) /\ WF_vars(MonWake) /\ WF_vars(MonProbed)
    /\ WF_vars(MonClosed) /\ WF_vars(MonCreated) /\ WF_vars(MonSlept)
    /\ WF_vars(CloseJoined) /\ WF_vars(CloseClosed)
    /\ WF_vars(ReqReady) /\ WF_vars(ReqFinish)

RetryLive == retryPc \in {"start", "creating", "probing", "sleeping"}
MonLive == monPc \in {"start", "sleep30", "probing", "closing", "creating", "sleep10"}

----------------------------------------------------------------------------
(* Claims about the lifecycle manager                                      *)

\* C1: a get_item issued while the store is unreachable never raises a
\* connectivity error (nor any other error of the connection layer) to its
\* caller.
C1_OutageTransparency ==
    (reqKind = "get_item" /\ reqDown /\ USE_POSTGRES)
        => reqResult \notin {"connectivity error", "RuntimeError"}

\* C2: while the application serves and the manager is not Connected, the
\* retry task or the health task is still alive to attempt a connection.
C2_SomeTaskRetries ==
    (USE_POSTGRES /\ phase = "serving" /\ ~_connected) => (RetryLive \/ MonLive)

\* C3: once close_db has returned both background tasks have ended, no pool
\* is open, the pool handle is None and the connected flag is false.
C3_CloseJoinsBoth ==
    closePc = "done" =>
        /\ ~RetryLive
        /\ ~MonLive
        /\ _pool = None
        /\ ~_connected
        /\ NumOpen = 0

\* C4: a health-check request is never suspended waiting for the manager to
\* become Connected.
C4_HealthNeverWaits ==
    reqKind = "health" => reqPc # "waiting"

\* C5: with USE_POSTGRES false no retry task, health task or pool exists and
\* a repository call has failed with a "feature disabled" error rather than
\* waiting for readiness.
C5_DisabledFailsFast ==
    ~USE_POSTGRES =>
        /\ retryPc = "none"
        /\ monPc = "none"
        /\ _pool = None
        /\ reqKind = "get_item" => (reqPc = "done" /\ reqResult = "feature disabled")

\* C6: every step that turns the connected flag from false to true (while the
\* application serves, before any shutdown) ran a successful SELECT 1 on the
\* pool that is current after the step.
C6_ConnectedOnlyOnProbe ==
    [][(phase' = "serving" /\ ~_connected /\ _connected')
          => (selectOn' # None /\ selectOn' = _pool')]_vars

\* C15: no repository call takes a connection from the pool or returns a
\* result unless that call has seen the connected flag true: a step in which
\* a call comes to hold a connection or to have its result is a step of a
\* call that already held a connection, or a step that finds the flag set.
C15_ReadinessFirst ==
    [][(/\ reqKind' \in RepoKinds
        /\ reqPc' \in {"acquiring", "done"}
        /\ <<reqKind, reqPc, reqResult>>' # <<reqKind, reqPc, reqResult>>)
       => (reqPc = "acquiring" \/ _connected)]_vars

\* C16: create_tables first tries create_all; only if that fails it tries
\* drop_all and then create_all, once; whatever these do, and whether or
\* not the models can be imported, create_tables does not raise: the step
\* of the retry loop whose probe succeeded sets the manager Connected, ends
\* the loop and starts the monitor.
C16_SchemaNeverBlocks ==
    /\ [](/\ Len(schemaOps) <= 3
          /\ Len(schemaOps) >= 1 => schemaOps[1].op = "create_all"
          /\ Len(schemaOps) >= 2 =>
                (~schemaOps[1].ok /\ schemaOps[2].op = "drop_all")
          /\ Len(schemaOps) = 1 => schemaOps[1].ok
          /\ Len(schemaOps) = 3 =>
                (schemaOps[2].ok /\ schemaOps[3].op = "create_all"))
    /\ [][(retryPc = "probing" /\ selectOn' # None) =>
            (_connected' /\ retryPc' = "done" /\ monPc' = "start")]_vars

\* C16 witness: create_all failed, drop_all succeeded, the second create_all
\* failed, and the manager is Connected.
C16_Witness ==
    /\ Len(schemaOps) = 3
    /\ ~schemaOps[3].ok
    /\ _connected
    /\ retryPc = "done"
    /\ monPc = "start"

\* C17: in the retry loop every failure records its error; a warning is
\* emitted only when the previous one is at least LogWindow seconds old;
\* the first failure is warned of.
C17_ThrottledWarnings ==
    [][(retryPc \in {"creating", "probing"} /\ retryPc' = "sleeping") =>
         /\ _last_connection_error' =
               (IF retryPc = "creating" THEN "open failed" ELSE "probe failed")
         /\ sinceWarn' = 0 => (warnings = 0 \/ sinceWarn >= LogWindow)
         /\ _last_connection_error = "None" => (sinceWarn' = 0 /\ warnings' = 1)]_vars

\* C17 witness: a second warning was emitted, after failures that were not
\* warned of.
C17_Witness ==
    /\ warnings = 2
    /\ sinceWarn = 0
    /\ retryPc = "sleeping"

C21_ProbeFailureOrdering ==
    /\ [](monPc \in {"closing", "creating"} =>
            /\ ~_connected
            /\ _pool # None => poolState[_pool] = "closed")
    /\ [][(monPc = "probing" /\ monPc' \in {"closing", "creating"}) =>
            ~_connected']_vars
    /\ [][(monPc = "creating" /\ _pool' # _pool /\ _pool' # None) =>
            (monPc' # "creating" /\ (_pool = None \/ poolState[_pool] = "closed"))]_vars

\* C21 witness: the probe failed while Connected, the pool is closed and
\* the new one is about to be opened.
C21_Witness ==
    /\ monPc = "creating"
    /\ phase = "serving"
    /\ _pool # None
    /\ poolState[_pool] = "closed"
    /\ ~_connected

\* C24: at most one pool is open at any time, and every pool that was ever
\* opened is the one the handle _pool holds or is closed: no open pool is left
\* without a handle by the retry loop, by the monitor or by shutdown.
C24_SinglePool ==
    /\ NumOpen <= 1
    /\ leaked = 0
    /\ \A i \in PoolIds : poolState[i] = "open" => i = _pool

\* C25: while the flag _connected is set, the pool the handle holds is open.
C25_ConnectedPoolOpen ==
    _connected => (_pool # None /\ poolState[_pool] = "open")

\* C26: while the flag _connected is set the handle _pool is not None, and no
\* data access that waited for readiness raises "Database pool not available".
C26_ConnectedHasPool ==
    /\ _connected => _pool # None
    /\ reqResult # "RuntimeError"
C26_Witness ==
    /\ reqKind \in RepoKinds /\ reqPc = "done" /\ reqResult = "ok"
    /\ _connected /\ _pool # None

\* C28: while the application serves, once a connection failure has
\* happened, the last_error that health_check() reports while not connected
\* (the global _last_connection_error) is the message of the most
\* recent failure, whether the retry loop or the monitor met it: a failure
\* of the retry loop leaves its message, a failed probe of the monitor leaves
\* "probe failed", its failed reconnect "open failed", and after a failure of
\* the monitor the message is never None.
C28_LastErrorCurrent ==
    /\ []((phase = "serving" /\ monPc \in {"closing", "creating", "sleep10"} /\ ~_connected) =>
            _last_connection_error # "None")
    /\ [][/\ (retryPc = "creating" /\ retryPc' = "sleeping") =>
                _last_connection_error' = "open failed"
          /\ (retryPc = "probing" /\ retryPc' = "sleeping") =>
                _last_connection_error' \in {"probe failed", "create_tables failed"}
          /\ (phase = "serving" /\ monPc = "probing" /\ monPc' \in {"closing", "creating"}) =>
                _last_connection_error' = "probe failed"
          /\ (phase = "serving" /\ monPc = "creating" /\ monPc' = "sleep10") =>
                _last_connection_error' = "open failed"]_vars

\* C7: the retry loop ends only cancelled or with the manager Connected and
\* the health task started, whatever failures came before; and if the store
\* stays reachable from some point on, a running retry loop does end.
C7_RetryNeverGivesUp ==
    /\ [][(RetryLive /\ ~RetryLive') =>
            \/ retryPc' = "cancelled"
            \/ (retryPc' = "done" /\ _connected' /\ monPc' = "start")]_vars
    /\ (<>[]dbUp) => (RetryLive ~> (retryPc \in {"done", "cancelled"}))

\* C7 witness: the loop failed at least once and then connected.
C7_Witness ==
    /\ _last_connection_error # "None"
    /\ retryPc = "done"
    /\ _connected
    /\ monPc = "start"

----------------------------------------------------------------------------
(* Generic repository (db/utils.py)                                        *)

\* model_dump(exclude_unset=True) of the items given to create_item, without
\* id: the fields the caller set, in declaration order.
ItemPairs ==
    {<<<<"email", e>>, <<"name", n>>>> : e \in Emails, n \in Names}
        \cup {<<<<"email", e>>>> : e \in Emails}

\* The updates dictionaries given to update_item, the empty one included.
UpdatePairs ==
    {<<>>}
        \cup {<<<<"name", n>>>> : n \in Names}
        \cup {<<<<"email", e>>>> : e \in Emails}
        \cup {<<<<"email", e>>, <<"name", n>>>> : e \in Emails, n \in Names}

\* The (query, params) operations given to execute_transaction.
TxStatements ==
    {Stmt("INSERT", 0, <<"email", "name">>, <<e, "Alice">>) : e \in Emails}
        \cup {Stmt("DELETE", k, <<>>, <<>>) : k \in Ids}
        \cup {Stmt("INVALID", 0, <<>>, <<>>)}

RECURSIVE SeqsUpTo(_, _)
\* All sequences over S of length at most n.
SeqsUpTo(S, n) ==
    IF n = 0 THEN {<<>>}
    ELSE LET shorter == SeqsUpTo(S, n - 1)
         IN  shorter \cup {Append(q, x) : q \in shorter, x \in S}

\* A call may start when no other is in progress.
RepoIdle == rPc = "idle"

\* create_item(item): INSERT ... RETURNING *, fetchone, commit; an error
\* leaves the connection block, which rolls back.
create_item ==
    /\ RepoIdle
    /\ HaveConnection
    /\ \E pairs \in ItemPairs :
         LET st == Stmt("INSERT", 0, Cols(pairs), Vals(pairs))
             o == Exec(store, st, nextId)
         IN  /\ SeqAvailable(st)
             /\ rArgs' = Args(0, pairs, <<>>)
             /\ rSent' = <<st>>
             /\ nextId' = NextIdAfter(st)
             /\ store' = o.tbl
             /\ rResult' = IF o.ok THEN Result("row", o.out, "") ELSE Result("error", <<>>, o.err)
             /\ made' = IF o.ok THEN Made(o.out[1].id, pairs) ELSE made
    /\ rFn' = "create_item"
    /\ rPc' = "done"
    /\ rBefore' = store
    /\ UNCHANGED <<txPos, txWork>>
    /\ UNCHANGED nonRepoVars

\* update_item(model, item_id, updates): one SET clause per key of updates,
\* then UPDATE ... WHERE id = %s RETURNING *, fetchone, commit.
update_item ==
    /\ RepoIdle
    /\ HaveConnection
    /\ \E id \in Ids, pairs \in UpdatePairs :
         LET st == Stmt("UPDATE", id, Cols(pairs), Vals(pairs))
             o == Exec(store, st, nextId)
         IN  /\ rArgs' = Args(id, pairs, <<>>)
             /\ rSent' = <<st>>
             /\ store' = o.tbl
             /\ rResult' = IF ~o.ok THEN Result("error", <<>>, o.err)
                           ELSE IF o.out = <<>> THEN Result("None", <<>>, "")
                           ELSE Result("row", o.out, "")
             /\ made' = StillMade(store, o.tbl)
    /\ rFn' = "update_item"
    /\ rPc' = "done"
    /\ rBefore' = store
    /\ UNCHANGED <<nextId, txPos, txWork>>
    /\ UNCHANGED nonRepoVars

\* Mutant of get_item: the first row of the table is returned whatever the id.
get_itemFirstRow ==
    /\ RepoIdle
    /\ HaveConnection
    /\ \E id \in Ids :
         /\ rArgs' = Args(id, <<>>, <<>>)
         /\ rSent' = <<Stmt("SELECT", id, <<>>, <<>>)>>
         /\ rResult' = IF store = <<>> THEN Result("None", <<>>, "")
                       ELSE Result("row", <<store[1]>>, "")
    /\ rFn' = "get_item"
    /\ rPc' = "done"
    /\ rBefore' = store
    /\ UNCHANGED <<store, nextId, txPos, txWork, made>>
    /\ UNCHANGED nonRepoVars

\* get_item(model, item_id): SELECT * ... WHERE id = %s, fetchone; the row
\* as a model instance, or None.
get_item ==
    /\ RepoIdle
    /\ HaveConnection
    /\ \E id \in Ids :
         LET st == Stmt("SELECT", id, <<>>, <<>>)
             o == Exec(store, st, nextId)
         IN  /\ rArgs' = Args(id, <<>>, <<>>)
             /\ rSent' = <<st>>
             /\ rResult' = IF o.out = <<>> THEN Result("None", <<>>, "")
                           ELSE Result("row", <<o.out[1]>>, "")
    /\ rFn' = "get_item"
    /\ rPc' = "done"
    /\ rBefore' = store
    /\ UNCHANGED <<store, nextId, txPos, txWork, made>>
    /\ UNCHANGED nonRepoVars

\* The where dictionaries given to get_items: none, or one filter.
WherePairs == {<<>>} \cup {<<<<"name", n>>>> : n \in Names}

\* The order_by arguments: none, a declared column, a name that is none.
OrderBys == {"None", "id", "nosuch"}

\* get_items(model, limit, offset, where, order_by): the statement is put
\* together from the arguments as they are, executed, and fetchall() is
\* returned as model instances.
get_items ==
    /\ RepoIdle
    /\ HaveConnection
    /\ \E where \in WherePairs, order \in OrderBys,
          limit \in -1..MaxLimit, offset \in -1..MaxOffset :
         LET st == PageStmt(Cols(where), Vals(where), order, limit, offset)
         IN  /\ rArgs' = PageArgs(where, order, limit, offset)
             /\ rSent' = <<st>>
             /\ \E o \in ExecPage(store, st) :
                   rResult' = IF o.ok THEN Result("rows", o.out, "")
                              ELSE Result("error", <<>>, o.err)
    /\ rFn' = "get_items"
    /\ rPc' = "done"
    /\ rBefore' = store
    /\ UNCHANGED <<store, nextId, txPos, txWork, made>>
    /\ UNCHANGED nonRepoVars

\* The dictionaries given to bulk_create as rows: email and name, with or
\* without bio.
BulkItems ==
    {<<<<"email", e>>, <<"name", n>>>> : e \in Emails, n \in Names}
        \cup {<<<<"email", e>>, <<"name", n>>, <<"bio", "hi">>>> : e \in Emails, n \in Names}

\* item.get(col): the value the dictionary has for col, else None.
Get(item, col) == Lookup(Cols(item), Vals(item), col, "NULL")

\* [k for k in items[0].keys() if k != "id"]
FirstKeys(items) == SelectSeq(Cols(items[1]), LAMBDA k : k # "id")

\* bulk_create(model, items): [] for no items; else the columns are the
\* keys of the first item, every item gives item.get(col) for each of them,
\* and one INSERT with a VALUES row per item is executed and committed.
bulk_create ==
    /\ RepoIdle
    /\ \E items \in SeqsUpTo(BulkItems, MaxBulkRows) :
         /\ rArgs' = BulkArgs(items)
         /\ IF items = <<>>
            THEN /\ rSent' = <<>>
                 /\ rResult' = Result("rows", <<>>, "")
                 /\ UNCHANGED <<store, nextId, made>>
            ELSE LET columns == FirstKeys(items)
                     values == [i \in DOMAIN items |->
                                  [c \in DOMAIN columns |-> Get(items[i], columns[c])]]
                     o == ExecInsertMany(store, columns, values, nextId)
                 IN  /\ HaveConnection
                     /\ nextId + Len(items) - 1 <= MaxId
                     /\ rSent' = <<Stmt("INSERT", 0, columns, values)>>
                     /\ nextId' = nextId + Len(items)
                     /\ store' = o.tbl
                     /\ made' = made
                     /\ rResult' = IF o.ok THEN Result("rows", o.out, "")
                                   ELSE Result("error", <<>>, o.err)
    /\ rFn' = "bulk_create"
    /\ rPc' = "done"
    /\ rBefore' = store
    /\ UNCHANGED <<txPos, txWork>>
    /\ UNCHANGED nonRepoVars

\* Mutant of delete_item: the answer is that of the statement, its effect is
\* not committed.
delete_itemNoCommit ==
    /\ RepoIdle
    /\ HaveConnection
    /\ \E id \in Ids :
         LET st == Stmt("DELETE", id, <<>>, <<>>)
             o == Exec(store, st, nextId)
         IN  /\ rArgs' = Args(id, <<>>, <<>>)
             /\ rSent' = <<st>>
             /\ rResult' = Result(IF o.out # <<>> THEN "True" ELSE "False", <<>>, "")
    /\ rFn' = "delete_item"
    /\ rPc' = "done"
    /\ rBefore' = store
    /\ UNCHANGED <<store, nextId, txPos, txWork, made>>
    /\ UNCHANGED nonRepoVars

\* delete_item(model, item_id): DELETE ... WHERE id = %s RETURNING id,
\* fetchone, commit; the answer is "result is not None".
delete_item ==
    /\ RepoIdle
    /\ HaveConnection
    /\ \E id \in Ids :
         LET st == Stmt("DELETE", id, <<>>, <<>>)
             o == Exec(store, st, nextId)
         IN  /\ rArgs' = Args(id, <<>>, <<>>)
             /\ rSent' = <<st>>
             /\ store' = o.tbl
             /\ made' = StillMade(store, o.tbl)
             /\ rResult' = Result(IF o.out # <<>> THEN "True" ELSE "False", <<>>, "")
    /\ rFn' = "delete_item"
    /\ rPc' = "done"
    /\ rBefore' = store
    /\ UNCHANGED <<nextId, txPos, txWork>>
    /\ UNCHANGED nonRepoVars

\* Mutant of Rollback: what the failed transaction did so far is kept.
RollbackKeepsWork == store' = txWork

\* await conn.rollback(): the effects of the statements executed so far are
\* dropped; the committed rows are what they were.
Rollback == store' = store

\* await conn.commit(): the rows as seen inside the transaction become the
\* committed rows.
Commit == store' = txWork

\* execute_transaction(operations) up to its first await: the connection is
\* held and a transaction is open on it.
TxBegin ==
    /\ RepoIdle
    /\ HaveConnection
    /\ \E ops \in SeqsUpTo(TxStatements, MaxOps) : rArgs' = Args(0, <<>>, ops)
    /\ rFn' = "execute_transaction"
    /\ rPc' = "tx"
    /\ rSent' = <<>>
    /\ rResult' = NoResult
    /\ rBefore' = store
    /\ txPos' = 1
    /\ txWork' = store
    /\ UNCHANGED <<store, nextId, made>>
    /\ UNCHANGED nonRepoVars

\* await cur.execute(query, params) of the next operation returns, or raises:
\* then rollback, and the error is raised again.
TxExec ==
    /\ rPc = "tx"
    /\ txPos <= Len(rArgs.ops)
    /\ LET st == rArgs.ops[txPos]
           o == Exec(txWork, st, nextId)
       IN  /\ SeqAvailable(st)
           /\ rSent' = Append(rSent, st)
           /\ nextId' = NextIdAfter(st)
           /\ IF o.ok
              THEN /\ txWork' = o.tbl
                   /\ txPos' = txPos + 1
                   /\ UNCHANGED <<store, rPc, rResult>>
              ELSE /\ Rollback
                   /\ rResult' = Result("error", <<>>, o.err)
                   /\ rPc' = "done"
                   /\ UNCHANGED <<txWork, txPos>>
    /\ UNCHANGED <<rFn, rArgs, rBefore, made>>
    /\ UNCHANGED nonRepoVars

\* Every operation was executed: await conn.commit().
TxCommit ==
    /\ rPc = "tx"
    /\ txPos > Len(rArgs.ops)
    /\ Commit
    /\ made' = StillMade(store, txWork)
    /\ rResult' = Result("None", <<>>, "")
    /\ rPc' = "done"
    /\ UNCHANGED <<nextId, rFn, rArgs, rSent, rBefore, txPos, txWork>>
    /\ UNCHANGED nonRepoVars

\* The caller has its result or its exception: the call is over.
Return ==
    /\ rPc = "done"
    /\ rFn' = "none"
    /\ rPc' = "idle"
    /\ rArgs' = Args(0, <<>>, <<>>)
    /\ rSent' = <<>>
    /\ rResult' = NoResult
    /\ rBefore' = <<>>
    /\ txPos' = 0
    /\ txWork' = <<>>
    /\ UNCHANGED <<store, nextId, made>>
    /\ UNCHANGED nonRepoVars

RepoNext ==
    \/ create_item \/ update_item \/ get_item \/ delete_item \/ get_items
    \/ bulk_create
    \/ TxBegin \/ TxExec \/ TxCommit
    \/ Return

\* The manager as the retry loop leaves it on a reachable store (Connected,
\* one open pool, the monitor asleep) and an empty table.
InitRepo ==
    /\ USE_POSTGRES = TRUE
    /\ dbUp = TRUE
    /\ phase = "serving"
    /\ _pool = 1
    /\ _connected = TRUE
    /\ _reconnect_task = "retry"
    /\ _last_connection_error = "None"
    /\ poolState = [i \in PoolIds |-> IF i = 1 THEN "open" ELSE "closed"]
    /\ leaked = 0
    /\ retryPc = "done"
    /\ retryCancel = FALSE
    /\ monPc = "sleep30"
    /\ monRef = None
    /\ closePc = "idle"
    /\ reqKind = "none"
    /\ reqPc = "idle"
    /\ reqRef = None
    /\ reqResult = "none"
    /\ reqDown = FALSE
    /\ selectOn = None
    /\ schemaOps = <<>>
    /\ sinceLog = LogWindow
    /\ sinceWarn = LogWindow
    /\ warnings = 0
    /\ store = <<>>
    /\ nextId = 1
    /\ rFn = "none"
    /\ rPc = "idle"
    /\ rArgs = Args(0, <<>>, <<>>)
    /\ rSent = <<>>
    /\ rResult = NoResult
    /\ rBefore = <<>>
    /\ txPos = 0
    /\ txWork = <<>>
    /\ made = NoMade
    /\ sqlFn = "none"
    /\ sqlIn = SqlInput(<<>>, <<>>, <<>>, <<>>, <<>>)
    /\ sqlStmt = Statement(<<>>, <<>>)
    /\ sqlPc = "built"
    /\ pool_conf = PoolConf(1, 1)
    /\ poolOpened = "none"
    /\ poolConns = 0
    /\ poolBusy = 0
    /\ USE_COUCHBASE = FALSE
    /\ cbUp = TRUE
    /\ _document_storage = {}
    /\ couchbase = {}
    /\ nextDoc = 1
    /\ cbFn = "none"
    /\ cbPc = "idle"
    /\ cbDoc = NoDoc
    /\ cbResult = NoCbResult

\* The repository used while the manager is Connected.
SpecRepo == InitRepo /\ [][RepoNext]_vars

RECURSIVE NumInserts(_)
NumInserts(ops) ==
    IF ops = <<>> THEN 0
    ELSE (IF ops[1].verb = "INSERT" THEN 1 ELSE 0) + NumInserts(Tail(ops))

RECURSIVE ApplyAll(_, _, _)
\* The operations applied one after the other to the rows tbl, the sequence
\* standing at id: the outcome of the first that fails, else of the last.
ApplyAll(tbl, ops, id) ==
    IF ops = <<>> THEN Outcome(TRUE, tbl, <<>>, "")
    ELSE LET o == Exec(tbl, ops[1], id)
         IN  IF ~o.ok THEN o
             ELSE ApplyAll(o.tbl, Tail(ops),
                           IF ops[1].verb = "INSERT" THEN id + 1 ELSE id)

----------------------------------------------------------------------------
(* Claims about the repository                                             *)

\* C8: execute_transaction is all or nothing.  While it runs the committed
\* rows are those before the call; when it has raised they still are (what
\* the earlier statements did is rolled back); it returns normally only if
\* every operation succeeded, and then the committed rows are the rows
\* before the call with all operations applied in order.
C8_TransactionAtomic ==
    /\ rPc = "tx" => store = rBefore
    /\ (rFn = "execute_transaction" /\ rPc = "done") =>
          LET all == ApplyAll(rBefore, rArgs.ops, nextId - NumInserts(rSent))
          IN  IF rResult.kind = "error"
              THEN /\ store = rBefore
                   /\ ~all.ok
                   /\ rResult.err = all.err
              ELSE /\ rResult.kind = "None"
                   /\ all.ok
                   /\ rSent = rArgs.ops
                   /\ store = all.tbl

\* C8 witness: the second operation failed after the first had inserted a
\* row, and the committed rows are those before the call.
C8_Witness ==
    /\ rFn = "execute_transaction"
    /\ rPc = "done"
    /\ rResult.kind = "error"
    /\ Len(rSent) = 2
    /\ rSent[1].verb = "INSERT"
    /\ txWork # rBefore
    /\ store = rBefore

\* C9: update_item with an empty updates dictionary sends no statement,
\* leaves the committed rows as they were and returns None (no error).
C9_EmptyUpdateIsNoOp ==
    (rFn = "update_item" /\ rPc = "done" /\ rArgs.pairs = <<>>) =>
        /\ rSent = <<>>
        /\ store = rBefore
        /\ rResult.kind = "None"

\* C11: delete_item returns True exactly when a row with the id existed when
\* it ran; afterwards no row has the id; when none had it the call returns
\* False, raises nothing and the committed rows are what they were.
C11_DeleteItem ==
    (rFn = "delete_item" /\ rPc = "done") =>
        /\ rResult.kind = (IF HasId(rBefore, rArgs.id) THEN "True" ELSE "False")
        /\ ~HasId(store, rArgs.id)
        /\ store = Without(rBefore, rArgs.id)
        /\ ~HasId(rBefore, rArgs.id) => store = rBefore

\* C11 witness: a row was deleted and another one stays.
C11_Witness ==
    /\ rFn = "delete_item"
    /\ rPc = "done"
    /\ rResult.kind = "True"
    /\ Len(rBefore) = 2
    /\ Len(store) = 1

\* C12: get_item of the id create_item returned, with no write to that row
\* in between, returns a record that has, in every field the caller of
\* create_item set, the value the caller set; and so has the record that
\* create_item itself returned.
C12_CreateGetRoundTrip ==
    /\ (rFn = "get_item" /\ rPc = "done" /\ made.id # 0 /\ rArgs.id = made.id) =>
          /\ rResult.kind = "row"
          /\ rResult.rows[1].id = made.id
          /\ \A i \in DOMAIN made.pairs :
                rResult.rows[1][made.pairs[i][1]] = made.pairs[i][2]
    /\ (rFn = "create_item" /\ rPc = "done" /\ rResult.kind = "row") =>
          /\ made = Made(rResult.rows[1].id, rArgs.pairs)
          /\ \A i \in DOMAIN rArgs.pairs :
                rResult.rows[1][rArgs.pairs[i][1]] = rArgs.pairs[i][2]

\* C12 witness: the second of two items created is read back.
C12_Witness ==
    /\ rFn = "get_item"
    /\ rPc = "done"
    /\ made.id # 0
    /\ rArgs.id = made.id
    /\ Len(store) = 2
    /\ store[2].id = made.id
    /\ rResult.kind = "row"

\* C13: for limit >= 0 and offset >= 0, get_items(model, limit, offset)
\* returns exactly the rows at positions offset+1 .. min(offset+limit, n) of
\* the table in insertion order.
C13_PaginationInsertionOrder ==
    (/\ rFn = "get_items" /\ rPc = "done"
     /\ rArgs.pairs = <<>> /\ rArgs.order = "None"
     /\ rArgs.limit >= 0 /\ rArgs.offset >= 0) =>
        /\ rResult.kind = "rows"
        /\ rResult.rows = Page(rBefore, rArgs.limit, rArgs.offset)

\* C14: bulk_create of a non-empty list of rows that returns, returns one
\* record per row given, in the order given, with pairwise distinct ids, the
\* i-th record having every value the caller put in the i-th row.
C14_BulkCreateCarriesRows ==
    (/\ rFn = "bulk_create" /\ rPc = "done"
     /\ rArgs.items # <<>> /\ rResult.kind = "rows") =>
        /\ Len(rResult.rows) = Len(rArgs.items)
        /\ \A i, j \in DOMAIN rResult.rows :
              i # j => rResult.rows[i].id # rResult.rows[j].id
        /\ \A i \in DOMAIN rArgs.items : \A k \in DOMAIN rArgs.items[i] :
              rResult.rows[i][rArgs.items[i][k][1]] = rArgs.items[i][k][2]

\* C18: get_items with a negative limit or a negative offset is rejected
\* before any statement is sent to the store.
C18_NegativePageRejectedUnsent ==
    (/\ rFn = "get_items" /\ rPc = "done"
     /\ (rArgs.limit < 0 \/ rArgs.offset < 0)) =>
        /\ rResult.kind = "error"
        /\ rSent = <<>>

\* C19: get_items with an order_by that is not a declared column of the
\* model is rejected and executes no statement; every statement sent with
\* an ORDER BY names a declared column.
C19_OrderByValidated ==
    (rFn = "get_items" /\ rPc = "done") =>
        /\ rArgs.order \notin Columns \cup {"None"} =>
              (rResult.kind = "error" /\ rSent = <<>>)
        /\ \A i \in DOMAIN rSent : rSent[i].order \in Columns \cup {"None"}

\* C22: get_item and update_item called with an id that no row has return
\* None, raise nothing and leave the committed rows as they were.
C22_NotFoundIsAbsence ==
    (/\ rFn \in {"get_item", "update_item"} /\ rPc = "done"
     /\ ~HasId(rBefore, rArgs.id)) =>
        /\ rResult.kind = "None"
        /\ store = rBefore

----------------------------------------------------------------------------
(* Statement text                                                          *)
(*                                                                         *)
(* A text is a sequence whose elements are either a fragment written in    *)
(* the source (a string such as "SELECT * FROM ") or one character of a    *)
(* string the caller supplied.                                             *)

\* Longest table or column name tried.
MaxNameLen == 2

QUOTE == "\""
\* Characters of caller-supplied names: a letter, the quote, a separator.
NameChars == {"a", QUOTE, ";"}
SqlNames == SeqsUpTo(NameChars, MaxNameLen) \ {<<>>}
Benign == <<"a">>
SqlValues == {"v1", "x' OR '1'='1"}
Placeholders == {"%s", "%(param_0)s", "%(param_1)s", "%(update_param_0)s", "%(update_param_1)s"}

RECURSIVE Doubled(_)
\* Every quote of the name written twice.
Doubled(name) ==
    IF name = <<>> THEN <<>>
    ELSE (IF name[1] = QUOTE THEN <<QUOTE, QUOTE>> ELSE <<name[1]>>) \o Doubled(Tail(name))

\* psycopg.sql.Identifier(name) rendered: the name between quotes, its own
\* quotes doubled.
Identifier(name) == <<QUOTE>> \o Doubled(name) \o <<QUOTE>>

\* An f-string's {name}: the characters as they are.
Interpolated(name) == name

RECURSIVE Join(_, _)
\* sep.join(texts)
Join(sep, texts) ==
    IF texts = <<>> THEN <<>>
    ELSE IF Len(texts) = 1 THEN texts[1]
    ELSE texts[1] \o sep \o Join(sep, Tail(texts))

RECURSIVE Flatten(_)
Flatten(seqs) == IF seqs = <<>> THEN <<>> ELSE seqs[1] \o Flatten(Tail(seqs))

Repeat(x, n) == [i \in 1..n |-> x]

\* create_item: INSERT INTO {table} ({columns}) VALUES ({placeholders}) RETURNING *
CreateItemSql(in) ==
    Statement(<<"INSERT INTO ">> \o Identifier(in.table) \o <<" (">>
                \o Join(<<", ">>, [i \in DOMAIN in.cols |-> Identifier(in.cols[i])])
                \o <<") VALUES (">>
                \o Join(<<", ">>, Repeat(<<"%s">>, Len(in.cols)))
                \o <<") RETURNING *">>,
              in.vals)

\* get_item: SELECT * FROM {table} WHERE id = %s
GetItemSql(in) ==
    Statement(<<"SELECT * FROM ">> \o Identifier(in.table) \o <<" WHERE id = ", "%s">>,
              <<"id1">>)

\* get_items: SELECT * FROM {} [WHERE {} = %s AND ...] [ORDER BY {}] LIMIT %s OFFSET %s
GetItemsSql(in) ==
    LET from == <<"SELECT * FROM ">> \o Identifier(in.table)
        where == IF in.cols = <<>> THEN <<>>
                 ELSE <<<<"WHERE ">> \o Join(<<" AND ">>,
                          [i \in DOMAIN in.cols |-> Identifier(in.cols[i]) \o <<" = ", "%s">>])>>
        order == IF in.order = <<>> THEN <<>>
                 ELSE <<<<"ORDER BY ">> \o Identifier(in.order)>>
        limit == <<<<"LIMIT ", "%s", " OFFSET ", "%s">>>>
    IN  Statement(Join(<<" ">>, <<from>> \o where \o order \o limit),
                  in.vals \o <<"limit", "offset">>)

\* update_item: UPDATE {table} SET {updates} WHERE id = %s RETURNING *
UpdateItemSql(in) ==
    Statement(<<"UPDATE ">> \o Identifier(in.table) \o <<" SET ">>
                \o Join(<<", ">>, [i \in DOMAIN in.cols |-> Identifier(in.cols[i]) \o <<" = ", "%s">>])
                \o <<" WHERE id = ", "%s", " RETURNING *">>,
              in.vals \o <<"id1">>)

\* delete_item: DELETE FROM {table} WHERE id = %s RETURNING id
DeleteItemSql(in) ==
    Statement(<<"DELETE FROM ">> \o Identifier(in.table) \o <<" WHERE id = ", "%s", " RETURNING id">>,
              <<"id1">>)

\* Mutant of BulkCreateSql: the values are appended column after column.
BulkCreateSqlByColumn(in) ==
    LET row == <<"(">> \o Join(<<", ">>, Repeat(<<"%s">>, Len(in.cols))) \o <<")">>
    IN  Statement(<<"INSERT INTO ">> \o Identifier(in.table) \o <<" (">>
                    \o Join(<<", ">>, [i \in DOMAIN in.cols |-> Identifier(in.cols[i])])
                    \o <<") VALUES ">>
                    \o Join(<<", ">>, Repeat(row, Len(in.rows)))
                    \o <<" RETURNING *">>,
                  Flatten([c \in DOMAIN in.cols |->
                             [i \in DOMAIN in.rows |-> in.rows[i][c]]]))

\* bulk_create: INSERT INTO {table} ({columns}) VALUES (%s, ...), (%s, ...) RETURNING *
\* with one placeholder row per item, and the values appended item after
\* item, for each item column after column (in.rows[i][c] is item.get(col)
\* of item i for column c).
BulkCreateSql(in) ==
    LET row == <<"(">> \o Join(<<", ">>, Repeat(<<"%s">>, Len(in.cols))) \o <<")">>
    IN  Statement(<<"INSERT INTO ">> \o Identifier(in.table) \o <<" (">>
                    \o Join(<<", ">>, [i \in DOMAIN in.cols |-> Identifier(in.cols[i])])
                    \o <<") VALUES ">>
                    \o Join(<<", ">>, Repeat(row, Len(in.rows)))
                    \o <<" RETURNING *">>,
                  Flatten([i \in DOMAIN in.rows |->
                             [c \in DOMAIN in.cols |-> in.rows[i][c]]]))

\* helpers.build_where_clause(conditions, table_prefix):
\* " AND ".join(f"{prefix}{column} = %({param_key})s")
BuildWhereClause(in) ==
    LET key(i) == IF i = 1 THEN "%(param_0)s" ELSE "%(param_1)s"
    IN  Statement(Join(<<" AND ">>,
                       [i \in DOMAIN in.cols |->
                          Interpolated(in.table) \o <<".">> \o Interpolated(in.cols[i])
                             \o <<" = ", key(i)>>]),
                  in.vals)

\* helpers.build_update_clause(data, table_prefix):
\* ", ".join(f"{prefix}{column} = %({param_key})s")
BuildUpdateClause(in) ==
    LET key(i) == IF i = 1 THEN "%(update_param_0)s" ELSE "%(update_param_1)s"
    IN  Statement(Join(<<", ">>,
                       [i \in DOMAIN in.cols |->
                          Interpolated(in.table) \o <<".">> \o Interpolated(in.cols[i])
                             \o <<" = ", key(i)>>]),
                  in.vals)

SqlFns == {"create_item", "get_item", "get_items", "update_item", "delete_item",
           "bulk_create", "build_where_clause", "build_update_clause"}

\* Column lists tried: one name, or one name beside a benign one.
ColLists == {<<c>> : c \in SqlNames} \cup {<<c, Benign>> : c \in SqlNames}
                \cup {<<Benign, c>> : c \in SqlNames}

\* A table with its columns: any table name with a benign column, or a
\* benign table name with any of the column lists.
TableCols == {<<t, <<Benign>>>> : t \in SqlNames} \cup {<<Benign, cs>> : cs \in ColLists}

\* The inputs tried for function fn.
SqlInputs(fn) ==
    IF fn = "bulk_create"
    THEN UNION {{SqlInput(tc[1], tc[2], rs[1], <<>>, rs) :
                    rs \in UNION {[1..r -> [1..Len(tc[2]) -> SqlValues]] :
                                    r \in 1..MaxBulkRows}} :
                tc \in TableCols}
    ELSE {SqlInput(tc[1], tc[2], Repeat(v, Len(tc[2])), o, <<Repeat(v, Len(tc[2]))>>) :
            tc \in TableCols, v \in SqlValues,
            o \in (IF fn = "get_items" THEN {<<>>, Benign} ELSE {<<>>})}
            \cup (IF fn = "get_items"
                  THEN {SqlInput(Benign, <<Benign>>, <<v>>, o, <<<<v>>>>) :
                          v \in SqlValues, o \in SqlNames}
                  ELSE {})

InitSql ==
    /\ pool_conf = PoolConf(1, 1)
    /\ poolOpened = "none"
    /\ poolConns = 0
    /\ poolBusy = 0
    /\ USE_COUCHBASE = FALSE
    /\ cbUp = TRUE
    /\ _document_storage = {}
    /\ couchbase = {}
    /\ nextDoc = 1
    /\ cbFn = "none"
    /\ cbPc = "idle"
    /\ cbDoc = NoDoc
    /\ cbResult = NoCbResult
    /\ USE_POSTGRES = TRUE
    /\ dbUp = TRUE
    /\ phase = "serving"
    /\ _pool = 1
    /\ _connected = TRUE
    /\ _reconnect_task = "retry"
    /\ _last_connection_error = "None"
    /\ poolState = [i \in PoolIds |-> IF i = 1 THEN "open" ELSE "closed"]
    /\ leaked = 0
    /\ retryPc = "done"
    /\ retryCancel = FALSE
    /\ monPc = "sleep30"
    /\ monRef = None
    /\ closePc = "idle"
    /\ reqKind = "none"
    /\ reqPc = "idle"
    /\ reqRef = None
    /\ reqResult = "none"
    /\ reqDown = FALSE
    /\ selectOn = None
    /\ schemaOps = <<>>
    /\ sinceLog = LogWindow
    /\ sinceWarn = LogWindow
    /\ warnings = 0
    /\ store = <<>>
    /\ nextId = 1
    /\ rFn = "none"
    /\ rPc = "idle"
    /\ rArgs = Args(0, <<>>, <<>>)
    /\ rSent = <<>>
    /\ rResult = NoResult
    /\ rBefore = <<>>
    /\ txPos = 0
    /\ txWork = <<>>
    /\ made = NoMade
    /\ sqlFn \in SqlFns
    /\ sqlIn \in SqlInputs(sqlFn)
    /\ sqlStmt = Statement(<<>>, <<>>)
    /\ sqlPc = "input"

\* One action per builder: the statement for the inputs is built.
Built(stmt) ==
    /\ sqlPc = "input"
    /\ sqlPc' = "built"
    /\ sqlStmt' = stmt
    /\ UNCHANGED <<sqlFn, sqlIn>>
    /\ UNCHANGED nonSqlVars

BuildCreateItem == sqlFn = "create_item" /\ Built(CreateItemSql(sqlIn))
BuildGetItem == sqlFn = "get_item" /\ Built(GetItemSql(sqlIn))
BuildGetItems == sqlFn = "get_items" /\ Built(GetItemsSql(sqlIn))
BuildUpdateItem == sqlFn = "update_item" /\ Built(UpdateItemSql(sqlIn))
BuildDeleteItem == sqlFn = "delete_item" /\ Built(DeleteItemSql(sqlIn))
BuildBulkCreate == sqlFn = "bulk_create" /\ Built(BulkCreateSql(sqlIn))
BuildWhere == sqlFn = "build_where_clause" /\ Built(BuildWhereClause(sqlIn))
BuildUpdate == sqlFn = "build_update_clause" /\ Built(BuildUpdateClause(sqlIn))

SqlNext ==
    \/ BuildCreateItem \/ BuildGetItem \/ BuildGetItems \/ BuildUpdateItem
    \/ BuildDeleteItem \/ BuildBulkCreate \/ BuildWhere \/ BuildUpdate

\* The statement builders applied to names with metacharacters.
SpecSql == InitSql /\ [][SqlNext]_vars

\* What a SQL parser makes of a text: quoted identifiers (with their doubled
\* quotes undone), fragments of the source, and characters of the caller
\* that stand outside any quoted identifier.
Token(kind, name) == [kind |-> kind, name |-> name]

RECURSIVE ReadQuoted(_, _)
\* The text after an opening quote, read up to the closing one.
ReadQuoted(text, acc) ==
    IF text = <<>> THEN [closed |-> FALSE, name |-> acc, rest |-> <<>>]
    ELSE IF text[1] = QUOTE
         THEN IF Len(text) >= 2 /\ text[2] = QUOTE
              THEN ReadQuoted(Tail(Tail(text)), Append(acc, QUOTE))
              ELSE [closed |-> TRUE, name |-> acc, rest |-> Tail(text)]
         ELSE ReadQuoted(Tail(text), Append(acc, text[1]))

RECURSIVE Lex(_)
Lex(text) ==
    IF text = <<>> THEN <<>>
    ELSE IF text[1] = QUOTE
         THEN LET q == ReadQuoted(Tail(text), <<>>)
              IN  <<Token(IF q.closed THEN "ident" ELSE "unterminated", q.name)>> \o Lex(q.rest)
         ELSE IF text[1] \in NameChars
              THEN <<Token("raw", <<text[1]>>)>> \o Lex(Tail(text))
              ELSE <<Token("frag", <<text[1]>>)>> \o Lex(Tail(text))

RECURSIVE Idents(_)
\* The names of the quoted identifiers, in order.
Idents(toks) ==
    IF toks = <<>> THEN <<>>
    ELSE (IF toks[1].kind = "ident" THEN <<toks[1].name>> ELSE <<>>) \o Idents(Tail(toks))

\* The statement without its names: what is left is its structure.
Skeleton(toks) ==
    [i \in DOMAIN toks |-> IF toks[i].kind = "ident" THEN Token("ident", <<>>) ELSE toks[i]]

SqlOf(fn, in) ==
    CASE fn = "create_item" -> CreateItemSql(in)
      [] fn = "get_item" -> GetItemSql(in)
      [] fn = "get_items" -> GetItemsSql(in)
      [] fn = "update_item" -> UpdateItemSql(in)
      [] fn = "delete_item" -> DeleteItemSql(in)
      [] fn = "bulk_create" -> BulkCreateSql(in)
      [] fn = "build_where_clause" -> BuildWhereClause(in)
      [] fn = "build_update_clause" -> BuildUpdateClause(in)

\* The same call with every name replaced by a harmless one.
BenignInput(in) ==
    SqlInput(Benign, Repeat(Benign, Len(in.cols)), in.vals,
             IF in.order = <<>> THEN <<>> ELSE Benign, in.rows)

\* The names the caller gave, in the order the statement mentions them.
NamesGiven(fn, in) ==
    CASE fn \in {"get_item", "delete_item"} -> <<in.table>>
      [] fn \in {"create_item", "update_item", "bulk_create"} -> <<in.table>> \o in.cols
      [] fn = "get_items" ->
            <<in.table>> \o in.cols \o (IF in.order = <<>> THEN <<>> ELSE <<in.order>>)
      [] fn \in {"build_where_clause", "build_update_clause"} ->
            Flatten([i \in DOMAIN in.cols |-> <<in.table, in.cols[i]>>])

\* The values the caller gave, in the order of their placeholders.
ValuesGiven(fn, in) ==
    CASE fn \in {"get_item", "delete_item"} -> <<"id1">>
      [] fn = "create_item" -> in.vals
      [] fn = "update_item" -> in.vals \o <<"id1">>
      [] fn = "bulk_create" -> Flatten(in.rows)
      [] fn = "get_items" -> in.vals \o <<"limit", "offset">>
      [] fn \in {"build_where_clause", "build_update_clause"} -> in.vals

NumPlaceholders(text) == Cardinality({i \in DOMAIN text : text[i] \in Placeholders})

\* The statement stmt built by fn from in is safe from injection.
InjectionSafe(fn, in, stmt) ==
    LET toks == Lex(stmt.text)
    IN  /\ \A i \in DOMAIN toks : toks[i].kind \in {"ident", "frag"}
        /\ Idents(toks) = NamesGiven(fn, in)
        /\ Skeleton(toks) = Skeleton(Lex(SqlOf(fn, BenignInput(in)).text))
        /\ \A i \in DOMAIN stmt.text : stmt.text[i] \notin SqlValues
        /\ stmt.params = ValuesGiven(fn, in)
        /\ NumPlaceholders(stmt.text) = Len(stmt.params)

\* C10: in every statement any builder produces, each table and column name
\* the caller gave (filter keys, update keys and order_by included) appears
\* only as a quoted identifier, each value only as a parameter bound to a
\* placeholder, and the statement has the structure it has for harmless
\* names; this includes build_where_clause and build_update_clause.
C10_InjectionSafety ==
    sqlPc = "built" /\ sqlFn # "none" => InjectionSafe(sqlFn, sqlIn, sqlStmt)

\* C29: bulk_create builds one statement with a placeholder row per item:
\* for R items and C columns it has R rows of placeholders, R*C placeholders
\* and R*C parameters, and the parameter at position i*C+j (from 0) is the
\* value of item i for column j.
C29_BulkRowMajor ==
    (sqlPc = "built" /\ sqlFn = "bulk_create") =>
        LET R == Len(sqlIn.rows)
            C == Len(sqlIn.cols)
        IN  /\ Cardinality({k \in DOMAIN sqlStmt.text : sqlStmt.text[k] = "("}) = R
            /\ NumPlaceholders(sqlStmt.text) = R * C
            /\ Len(sqlStmt.params) = R * C
            /\ \A i \in 0..(R - 1), j \in 0..(C - 1) :
                  sqlStmt.params[i * C + j + 1] = sqlIn.rows[i + 1][j + 1]
C29_Witness ==
    /\ sqlPc = "built" /\ sqlFn = "bulk_create"
    /\ Len(sqlIn.rows) = 2 /\ Len(sqlIn.cols) = 2
    /\ sqlIn.rows[1][1] # sqlIn.rows[1][2]
    /\ sqlIn.rows[1] # sqlIn.rows[2]

----------------------------------------------------------------------------
(* The size of the pool create_pool() opens                                *)

\* Largest pool size followed.
MaxPoolSize == 4

\* POSTGRES_POOL_MIN and POSTGRES_POOL_MAX are parsed with int: any integer.
ConfSizes == (0 - 1)..MaxPoolSize

\* conf.get_postgres_pool_conf(): the two variables as they were parsed.
get_postgres_pool_conf == {PoolConf(lo, hi) : lo \in ConfSizes, hi \in ConfSizes}

\* The pool can be built on a configuration: it cannot hold fewer than no
\* connection, nor at least min_size and at most max_size of them when
\* max_size is below min_size.
PoolAccepts(c) == c.min_size >= 0 /\ c.max_size >= c.min_size

\* create_pool(): the configuration is read and handed to
\* AsyncConnectionPool(min_size=..., max_size=...) as it is, and the pool is
\* opened: it establishes min_size connections.
create_pool ==
    /\ poolOpened = "none"
    /\ IF PoolAccepts(pool_conf)
       THEN /\ poolOpened' = "open"
            /\ poolConns' = pool_conf.min_size
       ELSE /\ poolOpened' = "rejected"
            /\ UNCHANGED poolConns
    /\ UNCHANGED <<pool_conf, poolBusy>>
    /\ UNCHANGED nonSizeVars

\* acquire(): an idle connection, or a new one while the pool is below
\* max_size; otherwise the caller waits.
PoolAcquire ==
    /\ poolOpened = "open"
    /\ IF poolBusy < poolConns
       THEN UNCHANGED poolConns
       ELSE /\ poolConns < pool_conf.max_size
            /\ poolConns' = poolConns + 1
    /\ poolBusy' = poolBusy + 1
    /\ UNCHANGED <<pool_conf, poolOpened>>
    /\ UNCHANGED nonSizeVars

\* The scoped acquisition ends: the connection goes back to the pool.
PoolRelease ==
    /\ poolOpened = "open"
    /\ poolBusy > 0
    /\ poolBusy' = poolBusy - 1
    /\ UNCHANGED <<pool_conf, poolOpened, poolConns>>
    /\ UNCHANGED nonSizeVars

\* max_idle: an idle connection above min_size is closed.
PoolRecycle ==
    /\ poolOpened = "open"
    /\ poolConns > poolBusy
    /\ poolConns > pool_conf.min_size
    /\ poolConns' = poolConns - 1
    /\ UNCHANGED <<pool_conf, poolOpened, poolBusy>>
    /\ UNCHANGED nonSizeVars

\* close(): every connection is closed.
PoolClose ==
    /\ poolOpened = "open"
    /\ poolOpened' = "closed"
    /\ poolConns' = 0
    /\ poolBusy' = 0
    /\ UNCHANGED pool_conf
    /\ UNCHANGED nonSizeVars

PoolNext == create_pool \/ PoolAcquire \/ PoolRelease \/ PoolRecycle \/ PoolClose

\* The manager about to call create_pool(), with any configuration the
\* environment can give.
InitPool ==
    /\ pool_conf \in get_postgres_pool_conf
    /\ poolOpened = "none"
    /\ poolConns = 0
    /\ poolBusy = 0
    /\ USE_POSTGRES = TRUE
    /\ dbUp = TRUE
    /\ phase = "serving"
    /\ _pool = 1
    /\ _connected = TRUE
    /\ _reconnect_task = "retry"
    /\ _last_connection_error = "None"
    /\ poolState = [i \in PoolIds |-> IF i = 1 THEN "open" ELSE "closed"]
    /\ leaked = 0
    /\ retryPc = "done"
    /\ retryCancel = FALSE
    /\ monPc = "sleep30"
    /\ monRef = None
    /\ closePc = "idle"
    /\ reqKind = "none"
    /\ reqPc = "idle"
    /\ reqRef = None
    /\ reqResult = "none"
    /\ reqDown = FALSE
    /\ selectOn = None
    /\ schemaOps = <<>>
    /\ sinceLog = LogWindow
    /\ sinceWarn = LogWindow
    /\ warnings = 0
    /\ store = <<>>
    /\ nextId = 1
    /\ rFn = "none"
    /\ rPc = "idle"
    /\ rArgs = Args(0, <<>>, <<>>)
    /\ rSent = <<>>
    /\ rResult = NoResult
    /\ rBefore = <<>>
    /\ txPos = 0
    /\ txWork = <<>>
    /\ made = NoMade
    /\ sqlFn = "none"
    /\ sqlIn = SqlInput(<<>>, <<>>, <<>>, <<>>, <<>>)
    /\ sqlStmt = Statement(<<>>, <<>>)
    /\ sqlPc = "built"
    /\ USE_COUCHBASE = FALSE
    /\ cbUp = TRUE
    /\ _document_storage = {}
    /\ couchbase = {}
    /\ nextDoc = 1
    /\ cbFn = "none"
    /\ cbPc = "idle"
    /\ cbDoc = NoDoc
    /\ cbResult = NoCbResult

SpecPool == InitPool /\ [][PoolNext]_vars

\* C23: a pool is opened only on a configuration with 0 < min_size <=
\* max_size, and an open pool holds at least min_size and at most max_size
\* connections, whatever is acquired, released and recycled.
C23_PoolSizeBound ==
    poolOpened = "open" =>
        /\ pool_conf.min_size > 0
        /\ pool_conf.min_size <= pool_conf.max_size
        /\ pool_conf.min_size <= poolConns
        /\ poolConns <= pool_conf.max_size

----------------------------------------------------------------------------
(* The contact forms: couchbase_client.py                                  *)

\* Number of documents created.
MaxDocs == 3

FormNames == {"ann", "bob"}
DocIds == 1..MaxDocs

\* The call has no effect on the other state.
CbFrame == UNCHANGED <<USE_COUCHBASE, cbUp>> /\ UNCHANGED nonCbVars

\* Couchbase stops answering, or answers again.
CbDown ==
    /\ cbUp
    /\ cbUp' = FALSE
    /\ UNCHANGED <<USE_COUCHBASE, _document_storage, couchbase, nextDoc, cbFn, cbPc,
                   cbDoc, cbResult>>
    /\ UNCHANGED nonCbVars

CbUp ==
    /\ ~cbUp
    /\ cbUp' = TRUE
    /\ UNCHANGED <<USE_COUCHBASE, _document_storage, couchbase, nextDoc, cbFn, cbPc,
                   cbDoc, cbResult>>
    /\ UNCHANGED nonCbVars

\* create_contact_form(name, email, message) up to its await: the document
\* gets a new id and is put in _document_storage, then the POST is sent.
create_contact_form ==
    /\ cbPc = "idle"
    /\ cbFn' = "create_contact_form"
    /\ IF ~USE_COUCHBASE
       THEN /\ cbPc' = "done"
            /\ cbResult' = CbResult("RuntimeError", 0, {})
            /\ UNCHANGED <<_document_storage, couchbase, nextDoc, cbDoc>>
       ELSE /\ nextDoc <= MaxDocs
            /\ \E name \in FormNames :
                 /\ cbDoc' = Doc(nextDoc, name)
                 /\ _document_storage' = _document_storage \cup {Doc(nextDoc, name)}
            /\ nextDoc' = nextDoc + 1
            /\ cbPc' = "posting"
            /\ UNCHANGED <<couchbase, cbResult>>
    /\ CbFrame

\* The POST is answered with a status of success, with another status, or
\* it raises; the last two are logged.  The id is returned in every case.
CreatePosted ==
    /\ cbPc = "posting"
    /\ \E answer \in (IF cbUp THEN {"201"} ELSE {"500", "raised"}) :
         couchbase' = IF answer = "201" THEN couchbase \cup {cbDoc} ELSE couchbase
    /\ cbResult' = CbResult("id", cbDoc.id, {})
    /\ cbPc' = "done"
    /\ UNCHANGED <<_document_storage, nextDoc, cbFn, cbDoc>>
    /\ CbFrame

\* get_contact_form(doc_id) up to its await: the GET is sent.
get_contact_form ==
    /\ cbPc = "idle"
    /\ cbFn' = "get_contact_form"
    /\ \E id \in DocIds :
         /\ cbDoc' = Doc(id, "")
         /\ IF ~USE_COUCHBASE
            THEN /\ cbPc' = "done"
                 /\ cbResult' = CbResult("RuntimeError", 0, {})
            ELSE /\ cbPc' = "getting"
                 /\ UNCHANGED cbResult
    /\ UNCHANGED <<_document_storage, couchbase, nextDoc>>
    /\ CbFrame

\* The GET is answered 200 with the document, or with another status, or it
\* raises: then the answer is _document_storage.get(doc_id).
GetAnswered ==
    /\ cbPc = "getting"
    /\ LET remote == {d \in couchbase : d.id = cbDoc.id}
           memory == {d \in _document_storage : d.id = cbDoc.id}
       IN  cbResult' = IF cbUp /\ remote # {} THEN CbResult("doc", cbDoc.id, remote)
                       ELSE IF memory # {} THEN CbResult("fallback", cbDoc.id, memory)
                       ELSE CbResult("None", cbDoc.id, {})
    /\ cbPc' = "done"
    /\ UNCHANGED <<_document_storage, couchbase, nextDoc, cbFn, cbDoc>>
    /\ CbFrame

\* list_all_contact_forms(): list(_document_storage.values()).
list_all_contact_forms ==
    /\ cbPc = "idle"
    /\ cbFn' = "list_all_contact_forms"
    /\ cbPc' = "done"
    /\ cbResult' = IF ~USE_COUCHBASE THEN CbResult("RuntimeError", 0, {})
                   ELSE CbResult("list", 0, _document_storage)
    /\ UNCHANGED <<_document_storage, couchbase, nextDoc, cbDoc>>
    /\ CbFrame

\* The caller has its answer.
CbReturn ==
    /\ cbPc = "done"
    /\ cbPc' = "idle"
    /\ cbFn' = "none"
    /\ cbDoc' = NoDoc
    /\ cbResult' = NoCbResult
    /\ UNCHANGED <<_document_storage, couchbase, nextDoc>>
    /\ CbFrame

CbNext ==
    \/ CbDown \/ CbUp
    \/ create_contact_form \/ CreatePosted
    \/ get_contact_form \/ GetAnswered
    \/ list_all_contact_forms
    \/ CbReturn

\* The module after import and init_couchbase(): no document anywhere.
InitCb ==
    /\ USE_COUCHBASE \in BOOLEAN
    /\ cbUp \in BOOLEAN
    /\ _document_storage = {}
    /\ couchbase = {}
    /\ nextDoc = 1
    /\ cbFn = "none"
    /\ cbPc = "idle"
    /\ cbDoc = NoDoc
    /\ cbResult = NoCbResult
    /\ USE_POSTGRES = TRUE
    /\ dbUp = TRUE
    /\ phase = "serving"
    /\ _pool = 1
    /\ _connected = TRUE
    /\ _reconnect_task = "retry"
    /\ _last_connection_error = "None"
    /\ poolState = [i \in PoolIds |-> IF i = 1 THEN "open" ELSE "closed"]
    /\ leaked = 0
    /\ retryPc = "done"
    /\ retryCancel = FALSE
    /\ monPc = "sleep30"
    /\ monRef = None
    /\ closePc = "idle"
    /\ reqKind = "none"
    /\ reqPc = "idle"
    /\ reqRef = None
    /\ reqResult = "none"
    /\ reqDown = FALSE
    /\ selectOn = None
    /\ schemaOps = <<>>
    /\ sinceLog = LogWindow
    /\ sinceWarn = LogWindow
    /\ warnings = 0
    /\ store = <<>>
    /\ nextId = 1
    /\ rFn = "none"
    /\ rPc = "idle"
    /\ rArgs = Args(0, <<>>, <<>>)
    /\ rSent = <<>>
    /\ rResult = NoResult
    /\ rBefore = <<>>
    /\ txPos = 0
    /\ txWork = <<>>
    /\ made = NoMade
    /\ sqlFn = "none"
    /\ sqlIn = SqlInput(<<>>, <<>>, <<>>, <<>>, <<>>)
    /\ sqlStmt = Statement(<<>>, <<>>)
    /\ sqlPc = "built"
    /\ pool_conf = PoolConf(1, 1)
    /\ poolOpened = "none"
    /\ poolConns = 0
    /\ poolBusy = 0

SpecCb == InitCb /\ [][CbNext]_vars

\* C30: between calls _document_storage and the bucket hold the same
\* documents; create_contact_form returns an id only of a document stored in
\* both, and what list_all_contact_forms and the fallback of
\* get_contact_form return is stored in the bucket.
C30_StoreMirrorsCouchbase ==
    cbPc \in {"idle", "done"} =>
        /\ _document_storage = couchbase
        /\ cbResult.kind = "id" =>
              \E d \in _document_storage \cap couchbase : d.id = cbResult.id
        /\ cbResult.kind \in {"list", "fallback"} => cbResult.docs \subseteq couchbase

----------------------------------------------------------------------------
(* bluetext-demo-v0: init_db, _monitor_connection and close_db             *)
(*                                                                         *)
(* The module has the globals _pool and _reconnect_task only.  init_db()   *)
(* is the retry loop itself (its position is retryPc) and _reconnect_task  *)
(* holds the monitor task, so retryCancel is the cancellation of the       *)
(* monitor.  _connected and the request variables are not used.            *)

demoUnused == <<_connected, _last_connection_error, reqKind, reqPc, reqRef, reqResult,
                reqDown, selectOn, schemaOps>>

DemoFrame == UNCHANGED nonLifeVars /\ UNCHANGED demoUnused

\* init_db() is called: it returns at once when PostgreSQL is disabled,
\* else create_pool() is awaited.
DemoInitDb ==
    /\ DemoFrame
    /\ phase = "boot"
    /\ retryPc = "none"
    /\ IF USE_POSTGRES
       THEN /\ retryPc' = "creating"
            /\ UNCHANGED phase
       ELSE /\ retryPc' = "done"
            /\ phase' = "serving"
    /\ UNCHANGED <<USE_POSTGRES, dbUp, _pool, _reconnect_task, poolState, leaked,
                   retryCancel, monPc, monRef, closePc>>

\* create_pool() returns: the probe's connection is asked for.  Or it
\* raises: sleep(10).
DemoInitCreated ==
    /\ DemoFrame
    /\ retryPc = "creating"
    /\ \E lazy \in BOOLEAN :
         IF CreatePoolOk(lazy)
         THEN /\ _pool' = Fresh
              /\ Collect([poolState EXCEPT ![Fresh] = "open"], Fresh, monRef, reqRef)
              /\ retryPc' = "probing"
         ELSE /\ retryPc' = "sleeping"
              /\ UNCHANGED <<_pool, poolState, leaked>>
    /\ UNCHANGED <<USE_POSTGRES, dbUp, phase, _reconnect_task, retryCancel, monPc, monRef,
                   closePc>>

\* SELECT 1 returns: create_tables() runs (it raises nothing), the monitor
\* becomes the task _reconnect_task and init_db() returns.  Or the probe
\* raises: sleep(10).
DemoInitProbed ==
    /\ DemoFrame
    /\ retryPc = "probing"
    /\ IF ProbeOk(_pool)
       THEN /\ _reconnect_task' = "monitor"
            /\ monPc' = "start"
            /\ retryPc' = "done"
            /\ phase' = "serving"
       ELSE /\ retryPc' = "sleeping"
            /\ UNCHANGED <<_reconnect_task, monPc, phase>>
    /\ UNCHANGED <<USE_POSTGRES, dbUp, _pool, poolState, leaked, retryCancel, monRef,
                   closePc>>

\* sleep(10) is over: while True.
DemoInitSlept ==
    /\ DemoFrame
    /\ retryPc = "sleeping"
    /\ retryPc' = "creating"
    /\ UNCHANGED <<USE_POSTGRES, dbUp, phase, _pool, _reconnect_task, poolState, leaked,
                   retryCancel, monPc, monRef, closePc>>

\* Mutant of DemoMonitorLoop: the loop goes on while the pool is open.
DemoMonitorLoopWhileOpen(p) ==
    IF p # None /\ poolState'[p] = "open" THEN "sleep30" ELSE "done"

\* while _pool: the next await is sleep(30), or the task ends.
DemoMonitorLoop(p) == IF p # None THEN "sleep30" ELSE "done"

DemoMonStart ==
    /\ DemoFrame
    /\ monPc = "start"
    /\ ~retryCancel
    /\ UNCHANGED <<poolState, leaked>>
    /\ monPc' = DemoMonitorLoop(_pool)
    /\ UNCHANGED <<USE_POSTGRES, dbUp, phase, _pool, _reconnect_task,
                   retryPc, retryCancel, monRef, closePc>>

\* sleep(30) is over: if _pool, ask it for a connection.
DemoMonWake ==
    /\ DemoFrame
    /\ monPc = "sleep30"
    /\ ~retryCancel
    /\ UNCHANGED <<poolState, leaked>>
    /\ IF _pool # None
       THEN /\ monRef' = _pool
            /\ monPc' = "probing"
       ELSE /\ monRef' = None
            /\ monPc' = DemoMonitorLoop(_pool)
    /\ UNCHANGED <<USE_POSTGRES, dbUp, phase, _pool, _reconnect_task,
                   retryPc, retryCancel, closePc>>

\* The probe returns, or raises: then the pool, if there is one, is closed.
DemoMonProbed ==
    /\ DemoFrame
    /\ monPc = "probing"
    /\ ~retryCancel
    /\ monRef' = None
    /\ IF ProbeOk(monRef)
       THEN /\ Collect(poolState, _pool, None, reqRef)
            /\ monPc' = DemoMonitorLoop(_pool)
       ELSE IF _pool # None
            THEN /\ Collect([poolState EXCEPT ![_pool] = "closed"], _pool, None, reqRef)
                 /\ monPc' = "closing"
            ELSE /\ Collect(poolState, _pool, None, reqRef)
                 /\ monPc' = "creating"
    /\ UNCHANGED <<USE_POSTGRES, dbUp, phase, _pool, _reconnect_task,
                   retryPc, retryCancel, closePc>>

\* _pool.close() returned: create_pool() is called.
DemoMonClosed ==
    /\ DemoFrame
    /\ monPc = "closing"
    /\ ~retryCancel
    /\ monPc' = "creating"
    /\ UNCHANGED <<USE_POSTGRES, dbUp, phase, _pool, _reconnect_task, poolState, leaked,
                   retryPc, retryCancel, monRef, closePc>>

\* create_pool() returns: _pool is the new pool.  Or it raises: sleep(10).
DemoMonCreated ==
    /\ DemoFrame
    /\ monPc = "creating"
    /\ ~retryCancel
    /\ \E lazy \in BOOLEAN :
         IF CreatePoolOk(lazy)
         THEN /\ _pool' = Fresh
              /\ Collect([poolState EXCEPT ![Fresh] = "open"], Fresh, monRef, reqRef)
              /\ monPc' = DemoMonitorLoop(Fresh)
         ELSE /\ monPc' = "sleep10"
              /\ UNCHANGED <<_pool, poolState, leaked>>
    /\ UNCHANGED <<USE_POSTGRES, dbUp, phase, _reconnect_task,
                   retryPc, retryCancel, monRef, closePc>>

\* sleep(10) is over: back to the loop condition.
DemoMonSlept ==
    /\ DemoFrame
    /\ monPc = "sleep10"
    /\ ~retryCancel
    /\ UNCHANGED <<poolState, leaked>>
    /\ monPc' = DemoMonitorLoop(_pool)
    /\ UNCHANGED <<USE_POSTGRES, dbUp, phase, _pool, _reconnect_task,
                   retryPc, retryCancel, monRef, closePc>>

\* CancelledError is raised at the await the monitor is suspended at; no
\* except clause of the monitor catches it and the task ends.
DemoMonCancelled ==
    /\ DemoFrame
    /\ retryCancel
    /\ monPc \in {"start", "sleep30", "probing", "closing", "creating", "sleep10"}
    /\ monPc' = "cancelled"
    /\ monRef' = None
    /\ Collect(poolState, _pool, None, reqRef)
    /\ UNCHANGED <<USE_POSTGRES, dbUp, phase, _pool, _reconnect_task,
                   retryPc, retryCancel, closePc>>

\* close_db() once _reconnect_task is dealt with: _pool.close() is awaited.
DemoCloseTail ==
    /\ _reconnect_task' = "None"
    /\ IF _pool # None
       THEN /\ Collect([poolState EXCEPT ![_pool] = "closed"], _pool, monRef, reqRef)
            /\ closePc' = "closing"
       ELSE /\ closePc' = "done"
            /\ UNCHANGED <<poolState, leaked>>

\* close_db() up to its first suspension: the monitor is cancelled and
\* awaited.
DemoShutdown ==
    /\ DemoFrame
    /\ phase = "serving"
    /\ phase' = "shutdown"
    /\ IF _reconnect_task # "None"
       THEN /\ retryCancel' = (monPc \notin {"done", "cancelled"})
            /\ IF monPc \in {"done", "cancelled"}
               THEN DemoCloseTail
               ELSE /\ closePc' = "joining"
                    /\ UNCHANGED <<_reconnect_task, poolState, leaked>>
       ELSE /\ UNCHANGED retryCancel
            /\ DemoCloseTail
    /\ UNCHANGED <<USE_POSTGRES, dbUp, _pool, retryPc, monPc, monRef>>

\* await _reconnect_task returns once the monitor has ended.
DemoCloseJoined ==
    /\ DemoFrame
    /\ closePc = "joining"
    /\ monPc \in {"done", "cancelled"}
    /\ DemoCloseTail
    /\ UNCHANGED <<USE_POSTGRES, dbUp, phase, _pool, retryPc, retryCancel, monPc, monRef>>

\* await _pool.close() returned: _pool = None.
DemoCloseClosed ==
    /\ DemoFrame
    /\ closePc = "closing"
    /\ closePc' = "done"
    /\ _pool' = None
    /\ Collect(poolState, None, monRef, reqRef)
    /\ UNCHANGED <<USE_POSTGRES, dbUp, phase, _reconnect_task, retryPc, retryCancel,
                   monPc, monRef>>

DemoNext ==
    \/ DbDown \/ DbUp
    \/ DemoInitDb \/ DemoInitCreated \/ DemoInitProbed \/ DemoInitSlept
    \/ DemoMonStart \/ DemoMonWake \/ DemoMonProbed \/ DemoMonClosed
    \/ DemoMonCreated \/ DemoMonSlept \/ DemoMonCancelled
    \/ DemoShutdown \/ DemoCloseJoined \/ DemoCloseClosed

\* The module's globals at import.
InitDemo ==
    /\ USE_POSTGRES \in BOOLEAN
    /\ dbUp \in BOOLEAN
    /\ phase = "boot"
    /\ _pool = None
    /\ _connected = FALSE
    /\ _reconnect_task = "None"
    /\ _last_connection_error = "None"
    /\ poolState = [i \in PoolIds |-> "closed"]
    /\ leaked = 0
    /\ retryPc = "none"
    /\ retryCancel = FALSE
    /\ monPc = "none"
    /\ monRef = None
    /\ closePc = "idle"
    /\ reqKind = "none"
    /\ reqPc = "idle"
    /\ reqRef = None
    /\ reqResult = "none"
    /\ reqDown = FALSE
    /\ selectOn = None
    /\ schemaOps = <<>>
    /\ sinceLog = LogWindow
    /\ sinceWarn = LogWindow
    /\ warnings = 0
    /\ store = <<>>
    /\ nextId = 1
    /\ rFn = "none"
    /\ rPc = "idle"
    /\ rArgs = Args(0, <<>>, <<>>)
    /\ rSent = <<>>
    /\ rResult = NoResult
    /\ rBefore = <<>>
    /\ txPos = 0
    /\ txWork = <<>>
    /\ made = NoMade
    /\ sqlFn = "none"
    /\ sqlIn = SqlInput(<<>>, <<>>, <<>>, <<>>, <<>>)
    /\ sqlStmt = Statement(<<>>, <<>>)
    /\ sqlPc = "built"
    /\ pool_conf = PoolConf(1, 1)
    /\ poolOpened = "none"
    /\ poolConns = 0
    /\ poolBusy = 0
    /\ USE_COUCHBASE = FALSE
    /\ cbUp = TRUE
    /\ _document_storage = {}
    /\ couchbase = {}
    /\ nextDoc = 1
    /\ cbFn = "none"
    /\ cbPc = "idle"
    /\ cbDoc = NoDoc
    /\ cbResult = NoCbResult

SpecDemo == InitDemo /\ [][DemoNext]_vars

\* The event loop runs every task that is ready to run; outages and
\* shutdown come from outside.
FairSpecDemo ==
    /\ InitDemo
    /\ [][DemoNext]_vars
    /\ WF_vars(DemoInitDb) /\ WF_vars(DemoInitCreated) /\ WF_vars(DemoInitProbed)
    /\ WF_vars(DemoInitSlept)
    /\ WF_vars(DemoMonStart) /\ WF_vars(DemoMonWake) /\ WF_vars(DemoMonProbed)
    /\ WF_vars(DemoMonClosed) /\ WF_vars(DemoMonCreated) /\ WF_vars(DemoMonSlept)
    /\ WF_vars(DemoMonCancelled)
    /\ WF_vars(DemoCloseJoined) /\ WF_vars(DemoCloseClosed)

\* C27: in bluetext-demo-v0 the monitor never ends on its own while there
\* is a pool handle (it ends only cancelled by close_db); after a failed
\* reconnect it sleeps and later closes and recreates again; once the
\* store stays reachable while the application serves with PostgreSQL
\* enabled, the handle
\* eventually refers to an open pool for good; and close_db cancels the
\* monitor and closes the pool only after the monitor has ended.
C27_MonitorKeepsTrying ==
    /\ [](monPc = "done" => _pool = None)
    /\ [](monPc = "cancelled" => (retryCancel /\ phase = "shutdown"))
    /\ [](closePc = "joining" => retryCancel)
    /\ [](closePc \in {"closing", "done"} => monPc \in {"none", "done", "cancelled"})
    /\ [][(monPc = "sleep10" /\ monPc' # "sleep10") =>
            monPc' \in {"sleep30", "cancelled"}]_vars
    /\ (monPc = "sleep10") ~> (monPc \in {"closing", "creating", "cancelled"})
    /\ (<>[](USE_POSTGRES /\ dbUp /\ phase = "serving")) =>
            <>[](_pool # None /\ poolState[_pool] = "open")
C27_Witness ==
    /\ monPc = "creating" /\ retryPc = "done" /\ phase = "serving" /\ dbUp
    /\ _pool # None /\ poolState[_pool] = "closed" /\ leaked = 0
    /\ _reconnect_task = "monitor"

====
